---- MODULE Spec2Model ----
(***************************************************************************)
(* A model of the rankratioviz display: the linked rank plot / sample plot *)
(* selection machinery of RRVDisplay (src/unnamed/part_000) and the pure   *)
(* helpers of feature_computation.js.                                      *)
(*                                                                         *)
(* JavaScript values are records carrying their typeof; strings are        *)
(* sequences of one-character strings; Math.log is a fixed-point table in  *)
(* thousandths.  A handler that throws leaves the assignments it made      *)
(* before the throw in place, as the JavaScript does.                      *)
(***************************************************************************)
EXTENDS Integers, Sequences, FiniteSets, TLC

(***************************************************************************)
(* Bounds of the model.                                                    *)
(***************************************************************************)
\* Longest logged sequence of accepted rank plot clicks.
MaxClicks == 4
\* Largest magnitude of a numeric operand handed to computeBalance directly.
MaxOperand == 4

(***************************************************************************)
(* JavaScript values.                                                      *)
(***************************************************************************)
undefined == [typeof |-> "undefined", nan |-> FALSE, num |-> 0, str |-> <<>>]
null == [typeof |-> "object", nan |-> FALSE, num |-> 0, str |-> <<>>]
NaN == [typeof |-> "number", nan |-> TRUE, num |-> 0, str |-> <<>>]
Num(n) == [typeof |-> "number", nan |-> FALSE, num |-> n, str |-> <<>>]
Str(s) == [typeof |-> "string", nan |-> FALSE, num |-> 0, str |-> s]
Arr(items) == [typeof |-> "object", items |-> items]
\* +Infinity and -Infinity.
Infinity(sign) ==
    [typeof |-> "number", nan |-> FALSE, num |-> 0, str |-> <<sign, "Infinity">>]

\* obj[key] of a JavaScript object: a missing key reads as undefined.
Get(obj, key) == IF key \in DOMAIN obj THEN obj[key] ELSE undefined

\* a + b on JavaScript values whose operands are numbers or undefined.
JsAdd(a, b) ==
    IF a.typeof = "number" /\ b.typeof = "number" /\ ~a.nan /\ ~b.nan
    THEN Num(a.num + b.num)
    ELSE NaN

\* Completion of a call: a returned value or a thrown error.
Return(v) == [throws |-> FALSE, error |-> "none", value |-> v]
Throw(e) == [throws |-> TRUE, error |-> e, value |-> undefined]

(***************************************************************************)
(* feature_computation.computeBalance                                      *)
(***************************************************************************)
\* Math.log on the positive integers, in thousandths, rounded to nearest.
MathLogTable ==
    << 0, 693, 1099, 1386, 1609, 1792, 1946, 2079, 2197, 2303, 2398, 2485,
       2565, 2639, 2708, 2773, 2833, 2890, 2944, 2996, 3045, 3091, 3135, 3178,
       3219, 3258, 3296, 3332, 3367, 3401, 3434, 3466 >>

MathLog(v) == IF v.nan THEN NaN ELSE Num(MathLogTable[v.num])

JsSub(a, b) == IF a.nan \/ b.nan THEN NaN ELSE Num(a.num - b.num)

\* Fault model: the guard is < 0, so a zero operand reaches Math.log and
\* the result is an infinity or (both zero) NaN.
computeBalance_strictGuard(topValue, botValue) ==
    IF topValue.typeof # "number" \/ botValue.typeof # "number"
    THEN Throw("InvalidInput")
    ELSE IF (~topValue.nan /\ topValue.num < 0)
            \/ (~botValue.nan /\ botValue.num < 0)
    THEN Return(NaN)
    ELSE IF topValue.nan \/ botValue.nan
            \/ (topValue.num = 0 /\ botValue.num = 0)
    THEN Return(NaN)
    ELSE IF topValue.num = 0 THEN Return(Infinity("-"))
    ELSE IF botValue.num = 0 THEN Return(Infinity("+"))
    ELSE Return(JsSub(MathLog(topValue), MathLog(botValue)))

\* Fault model: the <= 0 guard is evaluated before the type check.
computeBalance_guardFirst(topValue, botValue) ==
    IF (topValue.typeof = "number" /\ ~topValue.nan /\ topValue.num <= 0)
       \/ (botValue.typeof = "number" /\ ~botValue.nan /\ botValue.num <= 0)
    THEN Return(NaN)
    ELSE IF topValue.typeof # "number" \/ botValue.typeof # "number"
    THEN Throw("InvalidInput")
    ELSE Return(JsSub(MathLog(topValue), MathLog(botValue)))

\* Fault model: the logarithms are subtracted the other way round.
computeBalance_swappedLogs(topValue, botValue) ==
    IF topValue.typeof # "number" \/ botValue.typeof # "number"
    THEN Throw("InvalidInput")
    ELSE IF (~topValue.nan /\ topValue.num <= 0)
            \/ (~botValue.nan /\ botValue.num <= 0)
    THEN Return(NaN)
    ELSE Return(JsSub(MathLog(botValue), MathLog(topValue)))

\* Fault model: only topValue is guarded, so a zero botValue reaches
\* Math.log (and gives +Infinity) and a negative one gives NaN.
computeBalance_topGuardOnly(topValue, botValue) ==
    IF topValue.typeof # "number" \/ botValue.typeof # "number"
    THEN Throw("InvalidInput")
    ELSE IF ~topValue.nan /\ topValue.num <= 0
    THEN Return(NaN)
    ELSE IF topValue.nan \/ botValue.nan \/ botValue.num < 0
    THEN Return(NaN)
    ELSE IF botValue.num = 0
    THEN Return(Infinity("+"))
    ELSE Return(JsSub(MathLog(topValue), MathLog(botValue)))

\* Fault model: one is added to both operands in place of the <= 0 guard,
\* so zero operands give a number.
computeBalance_pseudocount(topValue, botValue) ==
    IF topValue.typeof # "number" \/ botValue.typeof # "number"
    THEN Throw("InvalidInput")
    ELSE IF (~topValue.nan /\ topValue.num < 0)
            \/ (~botValue.nan /\ botValue.num < 0)
            \/ topValue.nan \/ botValue.nan
    THEN Return(NaN)
    ELSE Return(JsSub(MathLog(Num(topValue.num + 1)),
                      MathLog(Num(botValue.num + 1))))

computeBalance(topValue, botValue) ==
    IF topValue.typeof # "number" \/ botValue.typeof # "number"
    THEN Throw("InvalidInput")
    ELSE IF (~topValue.nan /\ topValue.num <= 0)
            \/ (~botValue.nan /\ botValue.num <= 0)
    THEN Return(NaN)
    ELSE Return(JsSub(MathLog(topValue), MathLog(botValue)))

(***************************************************************************)
(* feature_computation: searching features.  A string is a sequence of     *)
(* one-character strings.                                                  *)
(***************************************************************************)
Whitespace == {" ", "\t", "\n"}
Digits == <<"0", "1", "2", "3", "4", "5", "6", "7", "8", "9">>

\* String(n) for a natural number n.
RECURSIVE NatToString(_)
NatToString(n) ==
    IF n < 10
    THEN <<Digits[n + 1]>>
    ELSE Append(NatToString(n \div 10), Digits[(n % 10) + 1])

\* String(v) for a number value v.
NumberToString(v) ==
    IF v.nan THEN <<"N", "a", "N">>
    ELSE IF v.num < 0 THEN <<"-">> \o NatToString(0 - v.num)
    ELSE NatToString(v.num)

\* Fault model: numbers are not searchable.
trySearchable_stringsOnly(fmVal) ==
    IF fmVal.typeof = "string" THEN fmVal ELSE null

trySearchable(fmVal) ==
    IF fmVal.typeof = "string" THEN fmVal
    ELSE IF fmVal.typeof = "number" THEN Str(NumberToString(fmVal))
    ELSE null

\* s.includes(t)
StrIncludes(s, t) ==
    \E i \in 0..(Len(s) - Len(t)) : SubSeq(s, i + 1, i + Len(t)) = t

RECURSIVE TrimStart(_)
TrimStart(s) ==
    IF s # <<>> /\ s[1] \in Whitespace THEN TrimStart(Tail(s)) ELSE s

RECURSIVE TrimEnd(_)
TrimEnd(s) ==
    IF s # <<>> /\ s[Len(s)] \in Whitespace
    THEN TrimEnd(SubSeq(s, 1, Len(s) - 1))
    ELSE s

\* s.trim()
Trim(s) == TrimEnd(TrimStart(s))

\* s.replace(/[,;\s]/g, " ")
ReplaceSeparators(s) ==
    [i \in 1..Len(s) |->
        IF s[i] \in Whitespace \cup {",", ";"} THEN " " ELSE s[i]]

\* s.split(" "): the pieces between single spaces, empty pieces included.
RECURSIVE SplitOnSpace(_, _, _)
SplitOnSpace(s, i, piece) ==
    IF i > Len(s) THEN <<piece>>
    ELSE IF s[i] = " "
    THEN <<piece>> \o SplitOnSpace(s, i + 1, <<>>)
    ELSE SplitOnSpace(s, i + 1, Append(piece, s[i]))

\* array.filter(pred) for the predicate r !== "".
RECURSIVE FilterNonEmpty(_)
FilterNonEmpty(array) ==
    IF array = <<>> THEN <<>>
    ELSE IF Head(array) # <<>>
    THEN <<Head(array)>> \o FilterNonEmpty(Tail(array))
    ELSE FilterNonEmpty(Tail(array))

textToRankArray(text) ==
    IF text.typeof # "string"
    THEN <<>>
    ELSE FilterNonEmpty(
             SplitOnSpace(ReplaceSeparators(Trim(text.str)), 1, <<>>))

\* Fault model: a rank of arrayA matches when it contains a rank of arrayB.
existsIntersection_substring(arrayA, arrayB) ==
    \E a \in 1..Len(arrayA) : \E b \in 1..Len(arrayB) :
        StrIncludes(arrayA[a], arrayB[b])

existsIntersection(arrayA, arrayB) ==
    \E a \in 1..Len(arrayA) : \E b \in 1..Len(arrayB) : arrayA[a] = arrayB[b]

\* The rows of featureRowList, in order, that satisfy keep.
RECURSIVE FilterRows(_, _)
FilterRows(featureRowList, keep) ==
    IF featureRowList = <<>> THEN <<>>
    ELSE IF keep[Head(featureRowList)]
    THEN <<Head(featureRowList)>> \o FilterRows(Tail(featureRowList), keep)
    ELSE FilterRows(Tail(featureRowList), keep)

RowSet(featureRowList) ==
    {featureRowList[i] : i \in 1..Len(featureRowList)}

textFilterFeatures(featureRowList, inputText, featureMetadataField) ==
    FilterRows(featureRowList,
        [row \in RowSet(featureRowList) |->
            LET currVal == trySearchable(Get(row, featureMetadataField))
            IN  currVal # null /\ StrIncludes(currVal.str, inputText.str)])

rankFilterFeatures(featureRowList, inputText, featureMetadataField) ==
    LET inputRankArray == textToRankArray(inputText)
    IN  IF Len(inputRankArray) <= 0
        THEN <<>>
        ELSE FilterRows(featureRowList,
                 [row \in RowSet(featureRowList) |->
                     existsIntersection(
                         textToRankArray(
                             trySearchable(Get(row, featureMetadataField))),
                         inputRankArray)])

\* The values of searchType that filterFeatures knows.
TextSearch == Str(<<"t", "e", "x", "t">>)
RankSearch == Str(<<"r", "a", "n", "k">>)

\* rankPlotJSON is [ordering |-> the feature metadata field names,
\* rows |-> the rank plot dataset].
\* Fault model: the text is not trimmed before the emptiness test.
filterFeatures_noTrim(rankPlotJSON, inputText, featureMetadataField, searchType) ==
    IF featureMetadataField # "Feature ID"
       /\ ~(\E i \in 1..Len(rankPlotJSON.ordering) :
               rankPlotJSON.ordering[i] = featureMetadataField)
    THEN Throw("FieldNotFound")
    ELSE IF searchType # TextSearch /\ searchType # RankSearch
    THEN Throw("InvalidSearchKind")
    ELSE IF inputText.typeof # "string"
    THEN Throw("TypeError")
    ELSE IF Len(inputText.str) = 0
    THEN Return(Arr(<<>>))
    ELSE IF searchType = RankSearch
    THEN Return(Arr(rankFilterFeatures(
                        rankPlotJSON.rows, inputText, featureMetadataField)))
    ELSE Return(Arr(textFilterFeatures(
                        rankPlotJSON.rows, inputText, featureMetadataField)))

\* Fault model: "Feature ID" is looked up in the ordering like any field.
filterFeatures_noReserved(rankPlotJSON, inputText, featureMetadataField, searchType) ==
    IF ~(\E i \in 1..Len(rankPlotJSON.ordering) :
            rankPlotJSON.ordering[i] = featureMetadataField)
    THEN Throw("FieldNotFound")
    ELSE IF searchType # TextSearch /\ searchType # RankSearch
    THEN Throw("InvalidSearchKind")
    ELSE IF inputText.typeof # "string"
    THEN Throw("TypeError")
    ELSE IF Len(Trim(inputText.str)) = 0
    THEN Return(Arr(<<>>))
    ELSE IF searchType = RankSearch
    THEN Return(Arr(rankFilterFeatures(
                        rankPlotJSON.rows, inputText, featureMetadataField)))
    ELSE Return(Arr(textFilterFeatures(
                        rankPlotJSON.rows, inputText, featureMetadataField)))

\* Fault model: an unknown searchType is searched as text.
filterFeatures_defaultsToText(rankPlotJSON, inputText, featureMetadataField, searchType) ==
    IF featureMetadataField # "Feature ID"
       /\ ~(\E i \in 1..Len(rankPlotJSON.ordering) :
               rankPlotJSON.ordering[i] = featureMetadataField)
    THEN Throw("FieldNotFound")
    ELSE IF inputText.typeof # "string"
    THEN Throw("TypeError")
    ELSE IF Len(Trim(inputText.str)) = 0
    THEN Return(Arr(<<>>))
    ELSE IF searchType = RankSearch
    THEN Return(Arr(rankFilterFeatures(
                        rankPlotJSON.rows, inputText, featureMetadataField)))
    ELSE Return(Arr(textFilterFeatures(
                        rankPlotJSON.rows, inputText, featureMetadataField)))

\* Fault model: the empty query is looked at first, then the searchType,
\* then the field.
filterFeatures_fieldLast(rankPlotJSON, inputText, featureMetadataField, searchType) ==
    IF inputText.typeof = "string" /\ Len(Trim(inputText.str)) = 0
    THEN Return(Arr(<<>>))
    ELSE IF searchType # TextSearch /\ searchType # RankSearch
    THEN Throw("InvalidSearchKind")
    ELSE IF featureMetadataField # "Feature ID"
       /\ ~(\E i \in 1..Len(rankPlotJSON.ordering) :
               rankPlotJSON.ordering[i] = featureMetadataField)
    THEN Throw("FieldNotFound")
    ELSE IF inputText.typeof # "string"
    THEN Throw("TypeError")
    ELSE IF searchType = RankSearch
    THEN Return(Arr(rankFilterFeatures(
                        rankPlotJSON.rows, inputText, featureMetadataField)))
    ELSE Return(Arr(textFilterFeatures(
                        rankPlotJSON.rows, inputText, featureMetadataField)))

filterFeatures(rankPlotJSON, inputText, featureMetadataField, searchType) ==
    IF featureMetadataField # "Feature ID"
       /\ ~(\E i \in 1..Len(rankPlotJSON.ordering) :
               rankPlotJSON.ordering[i] = featureMetadataField)
    THEN Throw("FieldNotFound")
    ELSE IF searchType # TextSearch /\ searchType # RankSearch
    THEN Throw("InvalidSearchKind")
    ELSE IF inputText.typeof # "string"
    THEN Throw("TypeError")
    ELSE IF Len(Trim(inputText.str)) = 0
    THEN Return(Arr(<<>>))
    ELSE IF searchType = RankSearch
    THEN Return(Arr(rankFilterFeatures(
                        rankPlotJSON.rows, inputText, featureMetadataField)))
    ELSE Return(Arr(textFilterFeatures(
                        rankPlotJSON.rows, inputText, featureMetadataField)))

(***************************************************************************)
(* The data a display is constructed from.                                 *)
(***************************************************************************)
F1 == Str(<<"A", ";", "C">>)
F2 == Str(<<"A", "B", ";", "C">>)
F3 == Str(<<"B">>)
S1 == Str(<<"S", "1">>)
S2 == Str(<<"S", "2">>)

\* Rows of the rank plot dataset, in the order of the rank plot JSON.
\* Rank0 and Rank1 are the features' ranks; F1 and F3 tie in Rank1.
RankPlotRows ==
    << [FeatureID |-> F1, Classification |-> "None", rankratioviz_x |-> 0,
        Rank0 |-> Num(1), Rank1 |-> Num(5)],
       [FeatureID |-> F2, Classification |-> "None", rankratioviz_x |-> 1,
        Rank0 |-> Num(2), Rank1 |-> Num(0 - 3)],
       [FeatureID |-> F3, Classification |-> "None", rankratioviz_x |-> 2,
        Rank0 |-> Num(3), Rank1 |-> Num(5)] >>

\* A rank plot dataset whose rows are not in the order of their first
\* rank and in which F1 and F2 tie in both ranks.
TiedRankPlotRows ==
    << [FeatureID |-> F1, Classification |-> "None", rankratioviz_x |-> 1,
        Rank0 |-> Num(0), Rank1 |-> Num(7)],
       [FeatureID |-> F2, Classification |-> "None", rankratioviz_x |-> 2,
        Rank0 |-> Num(0), Rank1 |-> Num(7)],
       [FeatureID |-> F3, Classification |-> "None", rankratioviz_x |-> 0,
        Rank0 |-> Num(0 - 1), Rank1 |-> Num(12)] >>

RankPlotJSONs == {RankPlotRows, TiedRankPlotRows}
\* rankPlotJSON.datasets.rankratioviz_rank_ordering
rankOrdering == <<"Rank0", "Rank1">>

\* Rows of the sample plot dataset: no balance has been computed yet.
SamplePlotRows ==
    << [SampleID |-> S1, rankratioviz_balance |-> null],
       [SampleID |-> S2, rankratioviz_balance |-> null] >>

FeatureIDs == {RankPlotRows[i].FeatureID : i \in 1..Len(RankPlotRows)}
SampleIDs == {SamplePlotRows[i].SampleID : i \in 1..Len(SamplePlotRows)}

\* countJSON: feature -> sample -> count.  keys is Object.keys(countJSON).
DenseCounts ==
    [keys |-> <<F1, F2, F3>>,
     cts |-> (F1 :> (S1 :> Num(2) @@ S2 :> Num(0)))
          @@ (F2 :> (S1 :> Num(4) @@ S2 :> Num(3)))
          @@ (F3 :> (S1 :> Num(1) @@ S2 :> Num(5)))]

\* No feature has a count for sample S2.
MissingSampleCounts ==
    [keys |-> <<F1, F2, F3>>,
     cts |-> (F1 :> (S1 :> Num(2)))
          @@ (F2 :> (S1 :> Num(4)))
          @@ (F3 :> (S1 :> Num(1)))]

\* The first feature has every sample; F2 has no count for S2.
SparseCounts ==
    [keys |-> <<F1, F2, F3>>,
     cts |-> (F1 :> (S1 :> Num(2) @@ S2 :> Num(1)))
          @@ (F2 :> (S1 :> Num(4)))
          @@ (F3 :> (S1 :> Num(1) @@ S2 :> Num(5)))]

CountJSONs == {DenseCounts, MissingSampleCounts, SparseCounts}

View(rows) == [typeof |-> "object", data |-> rows]

(***************************************************************************)
(* RRVDisplay: balances.  d is the display object ("this").                *)
(***************************************************************************)
\* Fault model: no sample ID is rejected.
validateSampleID_none(d, sampleID) == Return(undefined)

validateSampleID(d, sampleID) ==
    IF Len(d.feature_ids) = 0
    THEN Throw("TypeError")
    ELSE IF Get(d.feature_cts[d.feature_ids[1]], sampleID) = undefined
    THEN Throw("UnknownSampleID")
    ELSE Return(undefined)

\* The loop of sumAbundancesForSampleFeatures from index t on.
RECURSIVE SumLoop(_, _, _, _, _)
SumLoop(d, sampleID, features, t, abundance) ==
    IF t > Len(features)
    THEN abundance
    ELSE SumLoop(d, sampleID, features, t + 1,
                 JsAdd(abundance, Get(d.feature_cts[features[t]], sampleID)))

\* Fault model: the sum starts from the count of the first feature, so an
\* empty list reads feature_cts[undefined][sampleID].
sumAbundancesForSampleFeatures_fromFirst(d, sampleRow, features) ==
    LET sampleID == sampleRow.SampleID
        valid == validateSampleID(d, sampleID)
    IN  IF valid.throws
        THEN valid
        ELSE IF Len(features) = 0
        THEN Throw("TypeError")
        ELSE Return(SumLoop(d, sampleID, features, 2,
                            Get(d.feature_cts[features[1]], sampleID)))

sumAbundancesForSampleFeatures(d, sampleRow, features) ==
    LET sampleID == sampleRow.SampleID
        valid == validateSampleID(d, sampleID)
    IN  IF valid.throws
        THEN valid
        ELSE Return(SumLoop(d, sampleID, features, 1, Num(0)))

updateBalanceSingle(d, sampleRow) ==
    LET sampleID == sampleRow.SampleID
        valid == validateSampleID(d, sampleID)
    IN  IF valid.throws
        THEN valid
        ELSE IF d.newFeatureHigh \notin DOMAIN d.feature_cts
                \/ d.newFeatureLow \notin DOMAIN d.feature_cts
        THEN Throw("TypeError")
        ELSE computeBalance(Get(d.feature_cts[d.newFeatureHigh], sampleID),
                            Get(d.feature_cts[d.newFeatureLow], sampleID))

\* Fault model: only the first feature of each list is counted.
updateBalanceMulti_firstOnly(d, sampleRow) ==
    LET valid == validateSampleID(d, sampleRow.SampleID)
        first(s) == IF Len(s) = 0 THEN <<>> ELSE <<s[1]>>
        topCt == sumAbundancesForSampleFeatures(
                     d, sampleRow, first(d.topFeatures.items))
        botCt == sumAbundancesForSampleFeatures(
                     d, sampleRow, first(d.botFeatures.items))
    IN  IF valid.throws THEN valid
        ELSE IF topCt.throws THEN topCt
        ELSE IF botCt.throws THEN botCt
        ELSE computeBalance(topCt.value, botCt.value)

updateBalanceMulti(d, sampleRow) ==
    LET valid == validateSampleID(d, sampleRow.SampleID)
        topCt == sumAbundancesForSampleFeatures(
                     d, sampleRow, d.topFeatures.items)
        botCt == sumAbundancesForSampleFeatures(
                     d, sampleRow, d.botFeatures.items)
    IN  IF valid.throws THEN valid
        ELSE IF topCt.throws THEN topCt
        ELSE IF botCt.throws THEN botCt
        ELSE computeBalance(topCt.value, botCt.value)

(***************************************************************************)
(* RRVDisplay: classification of a rank row.                               *)
(***************************************************************************)
\* Fault model: the numerator test wins over the test for both.
updateRankColorSingle_numFirst(d, rankRow) ==
    IF rankRow.FeatureID = d.newFeatureHigh
    THEN "Numerator"
    ELSE IF rankRow.FeatureID = d.newFeatureLow
    THEN "Denominator"
    ELSE "None"

updateRankColorSingle(d, rankRow) ==
    IF rankRow.FeatureID = d.newFeatureHigh
    THEN IF rankRow.FeatureID = d.newFeatureLow
         THEN "Both"
         ELSE "Numerator"
    ELSE IF rankRow.FeatureID = d.newFeatureLow
    THEN "Denominator"
    ELSE "None"

\* array.indexOf(x) >= 0
Includes(array, x) == \E i \in 1..Len(array.items) : array.items[i] = x

\* Fault model: the two membership tests read each other's list.
updateRankColorMulti_swapped(d, rankRow) ==
    LET inTop == Includes(d.botFeatures, rankRow.FeatureID)
        inBot == Includes(d.topFeatures, rankRow.FeatureID)
    IN  IF inTop
        THEN IF inBot THEN "Both" ELSE "Numerator"
        ELSE IF inBot THEN "Denominator" ELSE "None"

updateRankColorMulti(d, rankRow) ==
    LET inTop == Includes(d.topFeatures, rankRow.FeatureID)
        inBot == Includes(d.botFeatures, rankRow.FeatureID)
    IN  IF inTop
        THEN IF inBot THEN "Both" ELSE "Numerator"
        ELSE IF inBot THEN "Denominator" ELSE "None"

(***************************************************************************)
(* State.  The display's own fields keep their names; clickLog, lastOp and *)
(* balanceCall, filterCall are history.                                      *)
(***************************************************************************)
VARIABLES
    onHigh, newFeatureLow, newFeatureHigh, oldFeatureLow, oldFeatureHigh,
    topFeatures, botFeatures, feature_cts, feature_ids,
    rankPlotView, samplePlotView, rankPlotJSON,
    sortEngine, postrun, sortLog,
    exportCall, quoteCall, metadataCall,
    pass, other, multiFeatureButton, handlerRuns, lastHandler, remaking,
    clickLog, lastOp, balanceCall, filterCall

displayVars ==
    <<onHigh, newFeatureLow, newFeatureHigh, oldFeatureLow, oldFeatureHigh,
      topFeatures, botFeatures, feature_cts, feature_ids,
      rankPlotView, samplePlotView, rankPlotJSON>>
\* The engine's Array.prototype.sort, the callbacks samplePlotView.runAfter
\* has queued, and the history of the sortFuncs that ran.
rankVars == <<sortEngine, postrun, sortLog>>
\* History: the last call of getSamplePlotData, quoteTSVFieldIfNeeded or
\* identifyMetadataColumns (the two that were not called last are reset).
exportVars == <<exportCall, quoteCall, metadataCall>>
\* A second display made on the same page: its fields, the display whose
\* closure the multiFeatureButton of the page holds as onclick, the number
\* of clicks and searches handled, and the display whose handler ran last.
pairVars == <<other, multiFeatureButton, handlerRuns, lastHandler>>
vars ==
    <<displayVars, rankVars, exportVars, pass, pairVars, remaking,
      clickLog, lastOp, balanceCall, filterCall>>

\* The display object as the methods see it.
This ==
    [onHigh |-> onHigh,
     newFeatureLow |-> newFeatureLow, newFeatureHigh |-> newFeatureHigh,
     oldFeatureLow |-> oldFeatureLow, oldFeatureHigh |-> oldFeatureHigh,
     topFeatures |-> topFeatures, botFeatures |-> botFeatures,
     feature_cts |-> feature_cts, feature_ids |-> feature_ids,
     rankPlotView |-> rankPlotView, samplePlotView |-> samplePlotView,
     rankPlotJSON |-> rankPlotJSON]

\* The single-pair and the multi-set selection held by display d.
SinglePair(d) ==
    [onHigh |-> d.onHigh,
     newFeatureLow |-> d.newFeatureLow, newFeatureHigh |-> d.newFeatureHigh,
     oldFeatureLow |-> d.oldFeatureLow, oldFeatureHigh |-> d.oldFeatureHigh]
MultiSet(d) == [topFeatures |-> d.topFeatures, botFeatures |-> d.botFeatures]

(***************************************************************************)
(* RRVDisplay.changeSamplePlot                                             *)
(***************************************************************************)
CallBalanceFunc(updateBalanceFunc, d, sampleRow) ==
    IF updateBalanceFunc = "updateBalanceSingle"
    THEN updateBalanceSingle(d, sampleRow)
    ELSE updateBalanceMulti(d, sampleRow)

CallRankColorFunc(updateRankColorFunc, d, rankRow) ==
    IF updateRankColorFunc = "updateRankColorSingle"
    THEN updateRankColorSingle(d, rankRow)
    ELSE updateRankColorMulti(d, rankRow)

\* Outcome of a method: the display it leaves, whether it threw, whether it
\* called changeSamplePlot and with which balance function.
Outcome(d, completion, triggered, func) ==
    [this |-> d, throws |-> completion.throws, error |-> completion.error,
     triggered |-> triggered, func |-> func]

\* The set of outcomes of changeSamplePlot.  The modify callback of the
\* sample changeset runs row by row; when it throws at a row, the rows
\* before it have or have not been written, as the library decides.
changeSamplePlot(d, updateBalanceFunc, updateRankColorFunc) ==
    IF d.samplePlotView = undefined
    THEN {Outcome(d, Throw("TypeError"), TRUE, updateBalanceFunc)}
    ELSE
    LET rows == d.samplePlotView.data
        results == [i \in 1..Len(rows) |->
                       CallBalanceFunc(updateBalanceFunc, d, rows[i])]
        thrown == {i \in 1..Len(rows) : results[i].throws}
        written(n) ==
            [i \in 1..Len(rows) |->
                IF i <= n
                THEN [rows[i] EXCEPT !.rankratioviz_balance = results[i].value]
                ELSE rows[i]]
    IN  IF thrown # {}
        THEN LET k == CHOOSE i \in thrown : \A j \in thrown : i <= j
             IN  {Outcome([d EXCEPT !.samplePlotView = View(written(n))],
                          results[k], TRUE, updateBalanceFunc) :
                      n \in {0, k - 1}}
        ELSE
        LET d1 == [d EXCEPT !.samplePlotView = View(written(Len(rows)))]
        IN  IF d1.rankPlotView = undefined
            THEN {Outcome(d1, Throw("TypeError"), TRUE, updateBalanceFunc)}
            ELSE
            LET rankRows == d1.rankPlotView.data
                d2 == [d1 EXCEPT !.rankPlotView = View(
                          [i \in 1..Len(rankRows) |->
                              [rankRows[i] EXCEPT !.Classification =
                                  CallRankColorFunc(updateRankColorFunc,
                                                    d1, rankRows[i])]])]
            IN  {Outcome(d2, Return(undefined), TRUE, updateBalanceFunc)}

(***************************************************************************)
(* RRVDisplay: the two ways a selection is made.                           *)
(***************************************************************************)
\* feature_computation.filterFeatures as updateSamplePlotMulti calls it,
\* with the feature IDs, the entered text and the search type: the search
\* runs over the feature IDs themselves and yields feature IDs.
filterFeatureIDs(feature_ids_, inputText, searchType) ==
    LET found == filterFeatures(
                     [ordering |-> <<>>,
                      rows |-> [i \in 1..Len(feature_ids_) |->
                                   ("Feature ID" :> feature_ids_[i])]],
                     inputText, "Feature ID", searchType)
    IN  IF found.throws
        THEN found
        ELSE Return(Arr([i \in 1..Len(found.value.items) |->
                            found.value.items[i]["Feature ID"]]))

\* Fault model: the plots are redrawn only when the found features changed.
updateSamplePlotMulti_ifChanged(d, topType, botType, topEnteredText, botEnteredText) ==
    LET top == filterFeatureIDs(d.feature_ids, topEnteredText, topType)
        d1 == [d EXCEPT !.topFeatures = top.value]
        bot == filterFeatureIDs(d.feature_ids, botEnteredText, botType)
        d2 == [d1 EXCEPT !.botFeatures = bot.value]
    IN  IF top.throws THEN {Outcome(d, top, FALSE, "none")}
        ELSE IF bot.throws THEN {Outcome(d1, bot, FALSE, "none")}
        ELSE IF MultiSet(d2) = MultiSet(d)
        THEN {Outcome(d2, Return(undefined), FALSE, "none")}
        ELSE changeSamplePlot(d2, "updateBalanceMulti", "updateRankColorMulti")

\* Fault model: the rank plot is recoloured by the single-pair selection.
updateSamplePlotMulti_singleColor(d, topType, botType, topEnteredText, botEnteredText) ==
    LET top == filterFeatureIDs(d.feature_ids, topEnteredText, topType)
        d1 == [d EXCEPT !.topFeatures = top.value]
        bot == filterFeatureIDs(d.feature_ids, botEnteredText, botType)
        d2 == [d1 EXCEPT !.botFeatures = bot.value]
    IN  IF top.throws THEN {Outcome(d, top, FALSE, "none")}
        ELSE IF bot.throws THEN {Outcome(d1, bot, FALSE, "none")}
        ELSE changeSamplePlot(d2, "updateBalanceMulti", "updateRankColorSingle")

\* Fault model: the search also restarts the click cycle.
updateSamplePlotMulti_resetsPair(d, topType, botType, topEnteredText, botEnteredText) ==
    LET top == filterFeatureIDs(d.feature_ids, topEnteredText, topType)
        d1 == [d EXCEPT !.topFeatures = top.value, !.onHigh = TRUE]
        bot == filterFeatureIDs(d.feature_ids, botEnteredText, botType)
        d2 == [d1 EXCEPT !.botFeatures = bot.value]
    IN  IF top.throws THEN {Outcome(d, top, FALSE, "none")}
        ELSE IF bot.throws THEN {Outcome(d1, bot, FALSE, "none")}
        ELSE changeSamplePlot(d2, "updateBalanceMulti", "updateRankColorMulti")

updateSamplePlotMulti(d, topType, botType, topEnteredText, botEnteredText) ==
    LET top == filterFeatureIDs(d.feature_ids, topEnteredText, topType)
        d1 == [d EXCEPT !.topFeatures = top.value]
        bot == filterFeatureIDs(d.feature_ids, botEnteredText, botType)
        d2 == [d1 EXCEPT !.botFeatures = bot.value]
    IN  IF top.throws THEN {Outcome(d, top, FALSE, "none")}
        ELSE IF bot.throws THEN {Outcome(d1, bot, FALSE, "none")}
        ELSE changeSamplePlot(d2, "updateBalanceMulti", "updateRankColorMulti")

\* Fault model: the plots are redrawn whether or not the pair changed.
updateSamplePlotSingle_always(d) ==
    IF d.newFeatureLow # undefined /\ d.newFeatureHigh # undefined
       /\ d.newFeatureLow # null /\ d.newFeatureHigh # null
    THEN changeSamplePlot(d, "updateBalanceSingle", "updateRankColorSingle")
    ELSE {Outcome(d, Return(undefined), FALSE, "none")}

updateSamplePlotSingle(d) ==
    IF d.newFeatureLow # undefined /\ d.newFeatureHigh # undefined
       /\ d.newFeatureLow # null /\ d.newFeatureHigh # null
       /\ (d.oldFeatureLow # d.newFeatureLow
           \/ d.oldFeatureHigh # d.newFeatureHigh)
    THEN changeSamplePlot(d, "updateBalanceSingle", "updateRankColorSingle")
    ELSE {Outcome(d, Return(undefined), FALSE, "none")}

\* What lies under the pointer at a click on the rank plot: nothing, a
\* mark that is no bar, or the bar of one of the features a user clicks.
NoItem == [marktype |-> "none", FeatureID |-> undefined]
ClickedFeatures == {F1, F2}
ClickItems ==
    {NoItem, [marktype |-> "text", FeatureID |-> undefined]}
    \cup {[marktype |-> "rect", FeatureID |-> f] : f \in ClickedFeatures}

\* Fault model: the listener accepts a click on any mark.
clickListener_anyMark(d, i) ==
    IF i = NoItem
    THEN {Outcome(d, Return(undefined), FALSE, "none")}
    ELSE IF d.onHigh
    THEN {Outcome([d EXCEPT !.oldFeatureHigh = d.newFeatureHigh,
                            !.newFeatureHigh = i.FeatureID,
                            !.onHigh = ~d.onHigh],
                  Return(undefined), FALSE, "none")}
    ELSE
    LET d1 == [d EXCEPT !.oldFeatureLow = d.newFeatureLow,
                        !.newFeatureLow = i.FeatureID]
    IN  {IF o.throws THEN o
         ELSE [o EXCEPT !.this = [o.this EXCEPT !.onHigh = ~o.this.onHigh]] :
            o \in updateSamplePlotSingle(d1)}

\* The click listener of addClickEventToRankPlotView, called with item i.
clickListener(d, i) ==
    IF i = NoItem \/ i.marktype # "rect"
    THEN {Outcome(d, Return(undefined), FALSE, "none")}
    ELSE IF d.onHigh
    THEN {Outcome([d EXCEPT !.oldFeatureHigh = d.newFeatureHigh,
                            !.newFeatureHigh = i.FeatureID,
                            !.onHigh = ~d.onHigh],
                  Return(undefined), FALSE, "none")}
    ELSE
    LET d1 == [d EXCEPT !.oldFeatureLow = d.newFeatureLow,
                        !.newFeatureLow = i.FeatureID]
    IN  {IF o.throws THEN o
         ELSE [o EXCEPT !.this = [o.this EXCEPT !.onHigh = ~o.this.onHigh]] :
            o \in updateSamplePlotSingle(d1)}

(***************************************************************************)
(* RRVDisplay: sorting the rank plot by the rank the "rank" signal names.  *)
(***************************************************************************)
\* Bound of the model: most sortFuncs queued by runAfter at a time.
MaxPending == 2

\* What Array.prototype.sort may do with elements the comparator calls
\* equal: keep their order, or an engine whose sort is not stable.
SortEngines == {"stable", "reversed"}

\* parseFloat of a rank value that is a number, null or undefined: a
\* number is itself, the others are NaN.
parseFloat(v) == IF v.typeof = "number" THEN v ELSE NaN

\* a > b on numbers: false when either is NaN.
JsGreater(a, b) == ~a.nan /\ ~b.nan /\ a.num > b.num

\* Fault model: the comparator orders by descending rank.
sortComparator_descending(f1, f2, newRank) ==
    IF JsGreater(parseFloat(f1[newRank]), parseFloat(f2[newRank])) THEN 0 - 1
    ELSE IF JsGreater(parseFloat(f2[newRank]), parseFloat(f1[newRank])) THEN 1
    ELSE 0

\* The comparator handed to featureDataCopy.sort.
sortComparator(f1, f2, newRank) ==
    IF JsGreater(parseFloat(f1[newRank]), parseFloat(f2[newRank])) THEN 1
    ELSE IF JsGreater(parseFloat(f2[newRank]), parseFloat(f1[newRank])) THEN 0 - 1
    ELSE 0

\* x put into the sorted array: before the elements the comparator calls
\* greater and, in an engine that is not stable, before its equals.
RECURSIVE SortInsert(_, _, _, _)
SortInsert(sorted, x, newRank, engine) ==
    IF sorted = <<>>
    THEN <<x>>
    ELSE LET last == sorted[Len(sorted)]
             c == sortComparator(last, x, newRank)
         IN  IF c > 0 \/ (c = 0 /\ engine = "reversed")
             THEN Append(SortInsert(SubSeq(sorted, 1, Len(sorted) - 1),
                                    x, newRank, engine),
                         last)
             ELSE Append(sorted, x)

\* The first n elements of array, sorted by the comparator.
RECURSIVE SortPrefix(_, _, _, _)
SortPrefix(array, n, newRank, engine) ==
    IF n = 0
    THEN <<>>
    ELSE SortInsert(SortPrefix(array, n - 1, newRank, engine),
                    array[n], newRank, engine)

\* array.sort(comparator)
ArraySort(array, newRank, engine) ==
    SortPrefix(array, Len(array), newRank, engine)

\* Fault model: the rows are copied from the view, in the order of the
\* positions they have now.
featureDataCopy_fromView(d) ==
    [x \in 1..Len(d.rankPlotView.data) |->
        LET i == CHOOSE k \in 1..Len(d.rankPlotView.data) :
                     d.rankPlotView.data[k].rankratioviz_x = x - 1
        IN  d.rankPlotView.data[i]]

\* display.rankPlotJSON.datasets[dataName].slice()
featureDataCopy(d) == d.rankPlotJSON

\* The mapping from feature ID to new position: a later element of the
\* sorted copy overwrites an earlier one that has the same feature ID.
featureIDToNewX(sortedCopy) ==
    [id \in {sortedCopy[x].FeatureID : x \in 1..Len(sortedCopy)} |->
        (CHOOSE x \in 1..Len(sortedCopy) :
            /\ sortedCopy[x].FeatureID = id
            /\ \A y \in (x + 1)..Len(sortedCopy) :
                  sortedCopy[y].FeatureID # id) - 1]

\* Fault model: the rows are written anew, without their classification.
sortFunc_resetsClassification(view, newX) ==
    [view EXCEPT !.data =
        [i \in 1..Len(view.data) |->
            [view.data[i] EXCEPT
                !.rankratioviz_x = newX[view.data[i].FeatureID],
                !.Classification = "None"]]]

\* sortFunc: every row of the rank plot view gets its new rankratioviz_x.
sortFunc(view, newX) ==
    [view EXCEPT !.data =
        [i \in 1..Len(view.data) |->
            [view.data[i] EXCEPT
                !.rankratioviz_x = newX[view.data[i].FeatureID]]]]

\* The listener of the "rank" signal: what it hands to
\* samplePlotView.runAfter, or the error of calling it on undefined.
rankSignalListener(d, newRank, engine) ==
    LET sortedCopy == ArraySort(featureDataCopy(d), newRank, engine)
        newX == featureIDToNewX(sortedCopy)
    IN  IF d.samplePlotView = undefined
        THEN [throws |-> TRUE, error |-> "TypeError", queued |-> <<>>]
        ELSE [throws |-> FALSE, error |-> "none",
              queued |-> <<[newRank |-> newRank, featureIDToNewX |-> newX]>>]

\* Fault model: runAfter neither queues nor invokes the callback.
runAfter_dropped(pulse, queue, callback) ==
    [postrun |-> queue, invoked |-> <<>>]

\* display.samplePlotView.runAfter(sortFunc).  The sample plot view holds
\* the callback back while it is evaluating its own dataflow (pulse) and
\* invokes it at once when it is not; the dataflow of the rank plot view,
\* whose signal listener makes the call, has no part in the decision.
runAfter(pulse, queue, callback) ==
    IF pulse
    THEN [postrun |-> queue \o callback, invoked |-> <<>>]
    ELSE [postrun |-> queue, invoked |-> callback]

\* The positions the rows of a view have, row by row.
Positions(view) == [i \in 1..Len(view.data) |-> view.data[i].rankratioviz_x]

\* No sortFunc has run yet and the "rank" signal has not changed.
NoSort ==
    [newRank |-> "none", earlier |-> [r \in {"Rank0", "Rank1"} |-> <<>>],
     inListener |-> FALSE, requested |-> "none"]

\* The history after the sortFunc of callback has run on view; inListener
\* tells that it ran inside the signal listener, that is inside the
\* evaluation of the rank plot view that delivered the new rank; requested
\* is the rank the listener was last called with.
SortRan(log, view, callback, inListener) ==
    [newRank |-> callback.newRank,
     earlier |-> IF log.newRank = "none"
                 THEN log.earlier
                 ELSE [log.earlier EXCEPT ![log.newRank] = Positions(view)],
     inListener |-> inListener, requested |-> log.requested]

(***************************************************************************)
(* RRVDisplay: exporting the sample plot data, and the metadata columns.   *)
(***************************************************************************)
\* "" + v for the values a field of the export can hold.
JsString(v) ==
    IF v.typeof = "string" THEN v.str
    ELSE IF v.typeof = "number" THEN NumberToString(v)
    ELSE IF v = undefined
    THEN <<"u", "n", "d", "e", "f", "i", "n", "e", "d">>
    ELSE <<"n", "u", "l", "l">>

\* /\s|"/g.test(s)
HasWhitespaceOrQuote(s) ==
    \E i \in 1..Len(s) : s[i] \in Whitespace \cup {"\""}

\* s.replace(/"/g, '""')
RECURSIVE DoubleQuotes(_)
DoubleQuotes(s) ==
    IF s = <<>> THEN <<>>
    ELSE IF Head(s) = "\"" THEN <<"\"", "\"">> \o DoubleQuotes(Tail(s))
    ELSE <<Head(s)>> \o DoubleQuotes(Tail(s))

\* s.replace('"', '""'): only the first double quote is replaced.
RECURSIVE DoubleFirstQuote(_)
DoubleFirstQuote(s) ==
    IF s = <<>> THEN <<>>
    ELSE IF Head(s) = "\"" THEN <<"\"", "\"">> \o Tail(s)
    ELSE <<Head(s)>> \o DoubleFirstQuote(Tail(s))

\* Fault model: only the first double quote of t is doubled.
quoteTSVFieldIfNeeded_firstQuoteOnly(t) ==
    IF t.typeof = "string" /\ HasWhitespaceOrQuote(t.str)
    THEN Str(<<"\"">> \o DoubleFirstQuote(t.str) \o <<"\"">>)
    ELSE t

quoteTSVFieldIfNeeded(t) ==
    IF t.typeof = "string" /\ HasWhitespaceOrQuote(t.str)
    THEN Str(<<"\"">> \o DoubleQuotes(t.str) \o <<"\"">>)
    ELSE t

\* Fault model: a sample whose balance is NaN gets a line too.
PointDrawn_NaNIncluded(currBalance) ==
    /\ currBalance # null
    /\ currBalance # undefined

\* The test getSamplePlotData makes before it writes a sample's line.
PointDrawn(currBalance) ==
    /\ ~(currBalance.typeof = "number" /\ currBalance.nan)
    /\ currBalance # null
    /\ currBalance # undefined

\* Fault model: the metadata column is left out only for "Sample ID".
uniqueMetadata_balanceIncluded(currMetadataField) ==
    currMetadataField # <<"S", "a", "m", "p", "l", "e", " ", "I", "D">>

\* currMetadataField is neither "Sample ID" nor "rankratioviz_balance".
uniqueMetadata(currMetadataField) ==
    /\ currMetadataField # <<"S", "a", "m", "p", "l", "e", " ", "I", "D">>
    /\ currMetadataField #
           <<"r", "a", "n", "k", "r", "a", "t", "i", "o", "v", "i", "z", "_",
             "b", "a", "l", "a", "n", "c", "e">>

\* The key of a sample row that a field name reads.
RECURSIVE Joined(_)
Joined(s) == IF s = <<>> THEN "" ELSE Head(s) \o Joined(Tail(s))

\* The lines of outputTSV from row i of data on; a line is the sequence
\* of its tab-separated fields.
RECURSIVE DataLines(_, _, _)
DataLines(data, i, currMetadataField) ==
    IF i > Len(data) THEN <<>>
    ELSE IF PointDrawn(data[i].rankratioviz_balance)
    THEN << <<JsString(quoteTSVFieldIfNeeded(data[i].SampleID)),
              JsString(data[i].rankratioviz_balance)>>
            \o (IF uniqueMetadata(currMetadataField.str)
                THEN <<JsString(quoteTSVFieldIfNeeded(
                           Get(data[i], Joined(currMetadataField.str))))>>
                ELSE <<>>) >>
         \o DataLines(data, i + 1, currMetadataField)
    ELSE DataLines(data, i + 1, currMetadataField)

\* The string getSamplePlotData returns, as the sequence of its lines;
\* the empty string is the empty sequence.
getSamplePlotData(d, currMetadataField) ==
    IF d.samplePlotView = undefined
    THEN Throw("TypeError")
    ELSE
    LET header == <<<<"S", "a", "m", "p", "l", "e", "_", "I", "D">>,
                    <<"L", "o", "g", "_", "R", "a", "t", "i", "o">>>>
                  \o (IF uniqueMetadata(currMetadataField.str)
                      THEN <<JsString(quoteTSVFieldIfNeeded(
                                          currMetadataField))>>
                      ELSE <<>>)
        lines == DataLines(d.samplePlotView.data, 1, currMetadataField)
    IN  IF lines = <<>>
        THEN [throws |-> FALSE, error |-> "none", value |-> <<>>]
        ELSE [throws |-> FALSE, error |-> "none",
              value |-> <<header>> \o lines]

\* exportData: the TSV, and whether downloadDataURI was called with it.
exportData(d, xField) ==
    LET tsv == getSamplePlotData(d, xField)
    IN  [tsv |-> tsv, downloaded |-> ~tsv.throws /\ Len(tsv.value) > 0]

\* Object.keys(samplePlotSpec.datasets[dataName][0]) and the test of its
\* length; the columns are given as the set of the first sample's keys.
identifyMetadataColumns(samplePlotSpec) ==
    IF Len(samplePlotSpec) = 0
    THEN [throws |-> TRUE, error |-> "TypeError", value |-> {}]
    ELSE LET mdCols == DOMAIN samplePlotSpec[1]
         IN  IF mdCols # {}
             THEN [throws |-> FALSE, error |-> "none", value |-> mdCols]
             ELSE [throws |-> TRUE, error |-> "NoMetadataColumns",
                   value |-> {}]

\* Balances a sample of the sample plot view can hold when it is exported.
ExportBalances == {Num(1200), Num(0 - 500), NaN, null, undefined}

\* Sample plot datasets: three samples, of which one has a space and one
\* a double quote in its ID; Depth is a number, a text with a tab, or
\* missing.
ExportDatasets ==
    { << [SampleID |-> S1, rankratioviz_balance |-> b1, Depth |-> Num(7)],
         [SampleID |-> Str(<<"S", " ", "2">>), rankratioviz_balance |-> b2,
          Depth |-> Str(<<"a", "\t", "b">>)],
         [SampleID |-> Str(<<"S", "\"", "3">>), rankratioviz_balance |-> b3] >> :
        b1 \in ExportBalances, b2 \in ExportBalances, b3 \in ExportBalances }

\* Values of samplePlotJSON.encoding.x.field.
ExportFields ==
    {Str(<<"S", "a", "m", "p", "l", "e", " ", "I", "D">>),
     Str(<<"r", "a", "n", "k", "r", "a", "t", "i", "o", "v", "i", "z", "_",
           "b", "a", "l", "a", "n", "c", "e">>),
     Str(<<"D", "e", "p", "t", "h">>),
     Str(<<"B", "o", "d", "y", " ", "S", "i", "t", "e">>)}

\* Arguments quoteTSVFieldIfNeeded is called with on its own.
QuoteInputs ==
    {Str(<<"p", "l", "a", "i", "n">>),
     Str(<<"H", "e", " ", "s", "a", "i", "d", " ", "\"", "h", "i", "\"">>),
     Str(<<"a", " ", "b">>), Str(<<"a", "\t", "b">>), Str(<<"\n">>),
     Str(<<"\"">>), Str(<<"a", "\"", "b", "\"", "c">>), Str(<<>>),
     Num(5), NaN, null, undefined}

\* Sample plot datasets identifyMetadataColumns is called with.
MetadataDatasets ==
    {<<>>,
     << <<>> >>,
     << [SampleID |-> S1] >>,
     << [SampleID |-> S1, Depth |-> Num(7)], [SampleID |-> S2] >>,
     << [SampleID |-> S1], [SampleID |-> S2, Depth |-> Num(7)] >>}

NoExport ==
    [data |-> <<>>, currMetadataField |-> undefined,
     out |-> Throw("not called"), downloaded |-> FALSE]
NoQuote == [t |-> undefined, out |-> Str(<<"not called">>)]
NoMetadata ==
    [samplePlotSpec |-> <<>>,
     out |-> [throws |-> TRUE, error |-> "not called", value |-> {}]]

(***************************************************************************)
(* A pass of changeSamplePlot, step by step.                               *)
(***************************************************************************)
\* The selection of display d: the toggle, the single pair, the two sets.
Selection(d) == [pair |-> SinglePair(d), multi |-> MultiSet(d)]

\* No pass is under way.
Idle == [pc |-> "idle", start |-> <<>>, final |-> <<>>]

\* Fault model: a handler may be started while a pass is under way.
HandlerMayRun_midPass(pc) == TRUE

\* changeSamplePlot and the handlers that call it have no await and hand
\* over no callback between the two .run() calls: a handler, a listener or
\* a then-callback is started only when no pass is under way.
HandlerMayRun(pc) == pc = "idle"

\* The handler that started on display d with outcome o called
\* changeSamplePlot, and the sample plot view's .run() returned.
SamplePatched(d, o) ==
    /\ o.triggered
    /\ d.samplePlotView # undefined
    /\ ~o.throws \/ (o.error = "TypeError" /\ d.rankPlotView = undefined)

\* The display of such a handler after the sample plot view's .run(): the
\* rank plot view is not patched yet, and the click listener has not
\* flipped onHigh yet.
MidPass(d, o) ==
    [o.this EXCEPT !.rankPlotView = d.rankPlotView, !.onHigh = d.onHigh]

(***************************************************************************)
(* Two displays on one page.                                               *)
(***************************************************************************)
\* Bound of the model: clicks and searches handled by the two displays.
MaxHandlerRuns == 3

Instances == {"first", "second"}

\* Fault model: display is one variable all the displays share, so every
\* handler refers to the display that was constructed last.
HandlerDisplay_shared(k, last) == last

\* var display = this: the display the handlers made by display k refer
\* to is k, whichever display was constructed last.
HandlerDisplay(k, last) == k

(***************************************************************************)
(* RRVDisplay.remakeSamplePlot                                             *)
(***************************************************************************)
\* remakeSamplePlot: destroy(true) finalizes the sample plot view, or
\* throws when there is none, and makeSamplePlot(true) calls vegaEmbed;
\* this.samplePlotView is not assigned.  embedding tells whether vegaEmbed
\* was called.
remakeSamplePlot(d) ==
    IF d.samplePlotView = undefined
    THEN [throws |-> TRUE, error |-> "TypeError", embedding |-> FALSE]
    ELSE [throws |-> FALSE, error |-> "none", embedding |-> TRUE]

\* The rows of the view vegaEmbed makes of samplePlotJSON for a display
\* whose sample plot view was old.  No code of the display writes to the
\* dataset of samplePlotJSON; the rows are those of the JSON, with the
\* balances they were loaded with or, if the library kept the objects of
\* the JSON as the rows of the old view, with the balances written there.
RemadeRows(old) == {SamplePlotRows, old.data}

(***************************************************************************)
(* Inputs.                                                                 *)
(***************************************************************************)
\* What a user can have entered in topText / botText and chosen in
\* topSearch / botSearch when pressing the multi-feature button.
SearchInputs ==
    {[type |-> TextSearch, text |-> Str(<<>>)],
     [type |-> TextSearch, text |-> Str(<<"A">>)],
     [type |-> RankSearch, text |-> Str(<<"A">>)],
     [type |-> Str(<<"b", "o", "g", "u", "s">>), text |-> Str(<<"A">>)]}
Queries ==
    {[topType |-> t.type, topText |-> t.text,
      botType |-> b.type, botText |-> b.text] :
        t \in SearchInputs, b \in SearchInputs}
\* The queries that search by text in both controls.
TextQueries ==
    {q \in Queries : q.topType = TextSearch /\ q.botType = TextSearch}
\* A query both of whose search types are ones filterFeatures knows.
WellFormed(q) ==
    /\ q.topType \in {TextSearch, RankSearch}
    /\ q.botType \in {TextSearch, RankSearch}

\* Operands computeBalance is called with on its own.
BalanceOperands ==
    {undefined, null, NaN, Str(<<"1">>)}
    \cup {Num(n) : n \in (0 - MaxOperand)..MaxOperand}
NoCall == [top |-> undefined, bot |-> undefined, out |-> Throw("not called")]

\* Rank plot datasets filterFeatures is called with on its own: a string,
\* a number, null or nothing at all as a feature's metadata value.
SearchRows ==
    << ("Feature ID" :> F1
            @@ "Taxonomy" :> Str(<<"A", ";", "C">>)
            @@ "Confidence" :> Num(12)),
       ("Feature ID" :> F2
            @@ "Taxonomy" :> Str(<<"A", "B", ",", " ", "C">>)
            @@ "Confidence" :> Num(2)),
       ("Feature ID" :> F3
            @@ "Taxonomy" :> null),
       ("Feature ID" :> Str(<<"a", " ", "b">>)
            @@ "Taxonomy" :> Str(<<"a", "\t", "B">>)
            @@ "Confidence" :> NaN) >>
SearchJSONs ==
    {[ordering |-> <<"Taxonomy", "Confidence">>, rows |-> SearchRows],
     [ordering |-> <<>>, rows |-> SearchRows],
     [ordering |-> <<"Taxonomy">>, rows |-> <<>>]}
SearchFields == {"Feature ID", "Taxonomy", "Confidence", "Sample ID"}
SearchTexts ==
    {undefined,
     Str(<<>>), Str(<<" ">>), Str(<<"\t", " ">>),
     Str(<<"A">>), Str(<<"A", " ", "B">>), Str(<<" ", "A">>),
     Str(<<"a">>), Str(<<"C">>), Str(<<"2">>), Str(<<";">>),
     Str(<<"1", "2", ",", " ", "B">>)}
SearchTypes ==
    {TextSearch, RankSearch, Str(<<"b", "o", "g", "u", "s">>), undefined}
NoSearch ==
    [rankPlotJSON |-> [ordering |-> <<>>, rows |-> <<>>],
     inputText |-> undefined, featureMetadataField |-> "none",
     searchType |-> undefined, out |-> Throw("not called")]

(***************************************************************************)
(* Initial state: the constructor has run, no plot is embedded yet.        *)
(***************************************************************************)
constructor(rankPlotJSON_, countJSON, engine) ==
    /\ onHigh = TRUE
    /\ newFeatureLow = undefined
    /\ newFeatureHigh = undefined
    /\ oldFeatureLow = undefined
    /\ oldFeatureHigh = undefined
    /\ topFeatures = undefined
    /\ botFeatures = undefined
    /\ feature_cts = countJSON.cts
    /\ feature_ids = countJSON.keys
    /\ rankPlotView = undefined
    /\ samplePlotView = undefined
    /\ rankPlotJSON = rankPlotJSON_
    /\ sortEngine = engine
    /\ postrun = <<>>
    /\ sortLog = NoSort
    /\ clickLog = <<>>
    /\ lastOp = [op |-> "constructor", slot |-> "none", unchanged |-> TRUE,
                 wellFormed |-> TRUE,
                 triggered |-> FALSE, throws |-> FALSE, error |-> "none",
                 func |-> "none",
                 before |-> [onHigh |-> TRUE,
                             newFeatureLow |-> undefined,
                             newFeatureHigh |-> undefined,
                             oldFeatureLow |-> undefined,
                             oldFeatureHigh |-> undefined]]
    /\ balanceCall = NoCall
    /\ filterCall = NoSearch
    /\ exportCall = NoExport
    /\ quoteCall = NoQuote
    /\ metadataCall = NoMetadata
    /\ pass = Idle
    /\ remaking = FALSE

\* The fields of a display that has just been constructed.
NewDisplay(rankPlotJSON_, countJSON) ==
    [onHigh |-> TRUE,
     newFeatureLow |-> undefined, newFeatureHigh |-> undefined,
     oldFeatureLow |-> undefined, oldFeatureHigh |-> undefined,
     topFeatures |-> undefined, botFeatures |-> undefined,
     feature_cts |-> countJSON.cts, feature_ids |-> countJSON.keys,
     rankPlotView |-> undefined, samplePlotView |-> undefined,
     rankPlotJSON |-> rankPlotJSON_]

\* The page holds one display only.
OneDisplay ==
    /\ other = undefined
    /\ multiFeatureButton = "first"
    /\ handlerRuns = 0
    /\ lastHandler = "none"

InitDisplay(countJSON) ==
    constructor(RankPlotRows, countJSON, "stable") /\ OneDisplay

Init == \E countJSON \in CountJSONs : InitDisplay(countJSON)

(***************************************************************************)
(* Actions.                                                                *)
(***************************************************************************)
\* The display becomes d.
Becomes(d) ==
    /\ onHigh' = d.onHigh
    /\ newFeatureLow' = d.newFeatureLow
    /\ newFeatureHigh' = d.newFeatureHigh
    /\ oldFeatureLow' = d.oldFeatureLow
    /\ oldFeatureHigh' = d.oldFeatureHigh
    /\ topFeatures' = d.topFeatures
    /\ botFeatures' = d.botFeatures
    /\ feature_cts' = d.feature_cts
    /\ feature_ids' = d.feature_ids
    /\ rankPlotView' = d.rankPlotView
    /\ samplePlotView' = d.samplePlotView
    /\ rankPlotJSON' = d.rankPlotJSON

\* The record of the handler that ran last.
Ran(op, slot, wellFormed, o) ==
    [op |-> op, slot |-> slot, unchanged |-> MultiSet(o.this) = MultiSet(This),
     wellFormed |-> wellFormed,
     triggered |-> o.triggered, throws |-> o.throws, error |-> o.error,
     func |-> o.func, before |-> SinglePair(This)]

\* makeRankPlot: vegaEmbed("#rankPlot") resolves; the listeners are added.
RankPlotEmbedded ==
    /\ rankPlotView = undefined
    /\ Becomes([This EXCEPT !.rankPlotView = View(rankPlotJSON)])
    /\ lastOp' = Ran("rankPlotEmbedded", "none", TRUE,
                     Outcome(This, Return(undefined), FALSE, "none"))
    /\ UNCHANGED <<remaking, pass, pairVars, exportVars, rankVars, clickLog, balanceCall, filterCall>>

\* makeSamplePlot: vegaEmbed("#samplePlot") resolves.
SamplePlotEmbedded ==
    /\ samplePlotView = undefined
    /\ Becomes([This EXCEPT !.samplePlotView = View(SamplePlotRows)])
    /\ lastOp' = Ran("samplePlotEmbedded", "none", TRUE,
                     Outcome(This, Return(undefined), FALSE, "none"))
    /\ UNCHANGED <<remaking, pass, pairVars, exportVars, rankVars, clickLog, balanceCall, filterCall>>

\* A click on the rank plot.  Accepted clicks (on a rect mark) are logged.
RankPlotClick ==
    /\ rankPlotView # undefined
    /\ \E i \in ClickItems : \E o \in clickListener(This, i) :
        LET accepted == i.marktype = "rect"
            slot == IF ~accepted THEN "none"
                    ELSE IF onHigh THEN "numerator" ELSE "denominator"
        IN  /\ accepted => Len(clickLog) < MaxClicks
            /\ Becomes(o.this)
            /\ clickLog' =
                 IF accepted
                 THEN Append(clickLog,
                             [FeatureID |-> i.FeatureID, slot |-> slot,
                              triggered |-> o.triggered, throws |-> o.throws])
                 ELSE clickLog
            /\ lastOp' = Ran("click", slot, TRUE, o)
    /\ UNCHANGED <<remaking, pass, pairVars, exportVars, rankVars, balanceCall, filterCall>>

\* A press of the multi-feature button with query q in the search controls.
MultiFeatureButtonClick ==
    /\ \E q \in Queries :
       \E o \in updateSamplePlotMulti(This, q.topType, q.botType,
                                      q.topText, q.botText) :
            /\ Becomes(o.this)
            /\ lastOp' = Ran("search", "none", WellFormed(q), o)
    /\ UNCHANGED <<remaking, pass, pairVars, exportVars, rankVars, clickLog, balanceCall, filterCall>>

\* computeBalance called on its own.
CallComputeBalance ==
    /\ \E a \in BalanceOperands, b \in BalanceOperands :
         balanceCall' = [top |-> a, bot |-> b, out |-> computeBalance(a, b)]
    /\ UNCHANGED <<remaking, pass, pairVars, exportVars, displayVars, rankVars, clickLog, lastOp, filterCall>>

\* filterFeatures called on its own.
CallFilterFeatures ==
    /\ \E rankPlotJSON_ \in SearchJSONs, inputText \in SearchTexts,
          featureMetadataField \in SearchFields, searchType \in SearchTypes :
         filterCall' =
             [rankPlotJSON |-> rankPlotJSON_, inputText |-> inputText,
              featureMetadataField |-> featureMetadataField,
              searchType |-> searchType,
              out |-> filterFeatures(rankPlotJSON_, inputText,
                                     featureMetadataField, searchType)]
    /\ UNCHANGED <<remaking, pass, pairVars, exportVars, displayVars, rankVars, clickLog, lastOp, balanceCall>>

\* The "rank" signal of the rank plot takes the value newRank.
RankSignalChanged ==
    /\ rankPlotView # undefined
    /\ \E newRank \in {rankOrdering[i] : i \in 1..Len(rankOrdering)} :
       \E pulse \in BOOLEAN :
         LET o == rankSignalListener(This, newRank, sortEngine)
             r == runAfter(pulse, postrun, o.queued)
         IN  \* callbacks wait in the queue only while the sample plot
             \* view is evaluating
             /\ postrun # <<>> => pulse
             /\ Len(r.postrun) <= MaxPending
             /\ postrun' = r.postrun
             /\ IF r.invoked = <<>>
                THEN /\ UNCHANGED displayVars
                     /\ sortLog' = [sortLog EXCEPT !.requested = newRank]
                ELSE /\ Becomes([This EXCEPT !.rankPlotView =
                                    sortFunc(rankPlotView,
                                             r.invoked[1].featureIDToNewX)])
                     /\ sortLog' = [SortRan(sortLog, rankPlotView,
                                            r.invoked[1], TRUE)
                                       EXCEPT !.requested = newRank]
             /\ lastOp' = Ran("rank", "none", TRUE,
                              Outcome(This, IF o.throws THEN Throw(o.error)
                                            ELSE Return(undefined),
                                      FALSE, "none"))
    /\ UNCHANGED <<remaking, pass, pairVars, exportVars, sortEngine, clickLog, balanceCall, filterCall>>

\* The first sortFunc that runAfter queued is run.
SortFuncRuns ==
    /\ postrun # <<>>
    /\ Becomes([This EXCEPT !.rankPlotView =
                    sortFunc(rankPlotView, Head(postrun).featureIDToNewX)])
    /\ postrun' = Tail(postrun)
    /\ sortLog' = SortRan(sortLog, rankPlotView, Head(postrun), FALSE)
    /\ lastOp' = Ran("sortFunc", "none", TRUE,
                     Outcome(This, Return(undefined), FALSE, "none"))
    /\ UNCHANGED <<remaking, pass, pairVars, exportVars, sortEngine, clickLog, balanceCall, filterCall>>

\* A press of the export button: exportData on a sample plot view that
\* holds data, with currMetadataField the field of the x axis.
ExportDataButtonClick ==
    /\ \E data \in ExportDatasets, currMetadataField \in ExportFields :
         LET e == exportData([This EXCEPT !.samplePlotView = View(data)],
                             currMetadataField)
         IN  exportCall' =
                 [data |-> data, currMetadataField |-> currMetadataField,
                  out |-> e.tsv, downloaded |-> e.downloaded]
    /\ quoteCall' = NoQuote
    /\ metadataCall' = NoMetadata
    /\ UNCHANGED <<remaking, pass, pairVars, displayVars, rankVars,
                   clickLog, lastOp, balanceCall, filterCall>>

\* quoteTSVFieldIfNeeded called on its own.
CallQuoteTSVFieldIfNeeded ==
    /\ \E t \in QuoteInputs :
         quoteCall' = [t |-> t, out |-> quoteTSVFieldIfNeeded(t)]
    /\ exportCall' = NoExport
    /\ metadataCall' = NoMetadata
    /\ UNCHANGED <<remaking, pass, pairVars, displayVars, rankVars,
                   clickLog, lastOp, balanceCall, filterCall>>

\* identifyMetadataColumns called on its own.
CallIdentifyMetadataColumns ==
    /\ \E samplePlotSpec \in MetadataDatasets :
         metadataCall' = [samplePlotSpec |-> samplePlotSpec,
                          out |-> identifyMetadataColumns(samplePlotSpec)]
    /\ exportCall' = NoExport
    /\ quoteCall' = NoQuote
    /\ UNCHANGED <<remaking, pass, pairVars, displayVars, rankVars,
                   clickLog, lastOp, balanceCall, filterCall>>

\* A handler with outcome o runs as far as the sample plot view's .run()
\* when it gets there, and to its end when it does not.
HandlerStarts(o) ==
    IF SamplePatched(This, o)
    THEN /\ Becomes(MidPass(This, o))
         /\ pass' = [pc |-> "samplePatched",
                     start |-> Selection(MidPass(This, o)),
                     final |-> o.this]
    ELSE /\ Becomes(o.this)
         /\ pass' = Idle

\* A click on the rank plot, up to the sample plot view's .run().
PassRankPlotClick ==
    /\ HandlerMayRun(pass.pc)
    /\ rankPlotView # undefined
    /\ \E i \in ClickItems : \E o \in clickListener(This, i) :
         HandlerStarts(o)
    /\ UNCHANGED <<remaking, pairVars, exportVars, rankVars,
                   clickLog, lastOp, balanceCall, filterCall>>

\* A press of the multi-feature button, up to the sample plot view's
\* .run().
PassMultiFeatureButtonClick ==
    /\ HandlerMayRun(pass.pc)
    /\ \E q \in TextQueries :
       \E o \in updateSamplePlotMulti(This, q.topType, q.botType,
                                      q.topText, q.botText) :
         HandlerStarts(o)
    /\ UNCHANGED <<remaking, pairVars, exportVars, rankVars,
                   clickLog, lastOp, balanceCall, filterCall>>

\* The rest of the handler: the rank plot view's .change().run(), and what
\* the handler does after changeSamplePlot has returned.
PassPatchesRankView ==
    /\ pass.pc = "samplePatched"
    /\ Becomes(pass.final)
    /\ pass' = Idle
    /\ UNCHANGED <<remaking, pairVars, exportVars, rankVars,
                   clickLog, lastOp, balanceCall, filterCall>>

PassRankPlotEmbedded == HandlerMayRun(pass.pc) /\ RankPlotEmbedded
PassSamplePlotEmbedded == HandlerMayRun(pass.pc) /\ SamplePlotEmbedded

\* The "rank" signal takes the value newRank while the sample plot view
\* is not evaluating: runAfter invokes sortFunc at once.
PassRankSignalChanged ==
    /\ HandlerMayRun(pass.pc)
    /\ rankPlotView # undefined
    /\ \E newRank \in {rankOrdering[i] : i \in 1..Len(rankOrdering)} :
         LET o == rankSignalListener(This, newRank, sortEngine)
             r == runAfter(FALSE, <<>>, o.queued)
         IN  /\ ~o.throws
             /\ Becomes([This EXCEPT !.rankPlotView =
                            sortFunc(rankPlotView,
                                     r.invoked[1].featureIDToNewX)])
    /\ UNCHANGED <<remaking, pass, pairVars, exportVars, rankVars,
                   clickLog, lastOp, balanceCall, filterCall>>

\* remakeSamplePlot: the sample plot is cleared and embedded again, and
\* the then-callback stores the new view.
PassSamplePlotRemade ==
    /\ HandlerMayRun(pass.pc)
    /\ samplePlotView # undefined
    /\ Becomes([This EXCEPT !.samplePlotView = View(SamplePlotRows)])
    /\ UNCHANGED <<remaking, pass, pairVars, exportVars, rankVars,
                   clickLog, lastOp, balanceCall, filterCall>>

\* Display k of the two.
Display(k) == IF k = "first" THEN This ELSE other

\* Display k of the two becomes d.
SetDisplay(k, d) ==
    IF k = "first"
    THEN Becomes(d) /\ other' = other
    ELSE other' = d /\ UNCHANGED displayVars

\* vegaEmbed resolves for a plot of display k.
PairPlotEmbedded ==
    /\ \E k \in Instances :
         /\ \/ /\ Display(k).rankPlotView = undefined
               /\ SetDisplay(k, [Display(k) EXCEPT
                                    !.rankPlotView = View(RankPlotRows)])
            \/ /\ Display(k).samplePlotView = undefined
               /\ SetDisplay(k, [Display(k) EXCEPT
                                    !.samplePlotView = View(SamplePlotRows)])
         /\ lastHandler' = k
    /\ UNCHANGED <<remaking, pass, multiFeatureButton, handlerRuns, exportVars,
                   rankVars, clickLog, lastOp, balanceCall, filterCall>>

\* A click on the rank plot of display k: the listener display k added.
PairRankPlotClick ==
    /\ handlerRuns < MaxHandlerRuns
    /\ \E k \in Instances :
         LET display == HandlerDisplay(k, multiFeatureButton)
         IN  /\ Display(k).rankPlotView # undefined
             /\ \E i \in ClickItems :
                \E o \in clickListener(Display(display), i) :
                    SetDisplay(display, o.this)
             /\ lastHandler' = k
    /\ handlerRuns' = handlerRuns + 1
    /\ UNCHANGED <<remaking, pass, multiFeatureButton, exportVars,
                   rankVars, clickLog, lastOp, balanceCall, filterCall>>

\* A press of the multi-feature button of the page: its onclick is the
\* closure of the display that was constructed last.
PairMultiFeatureButtonClick ==
    /\ handlerRuns < MaxHandlerRuns
    /\ LET display == HandlerDisplay(multiFeatureButton, multiFeatureButton)
       IN  \E q \in Queries :
           \E o \in updateSamplePlotMulti(Display(display), q.topType,
                                          q.botType, q.topText, q.botText) :
               SetDisplay(display, o.this)
    /\ lastHandler' = multiFeatureButton
    /\ handlerRuns' = handlerRuns + 1
    /\ UNCHANGED <<remaking, pass, multiFeatureButton, exportVars,
                   rankVars, clickLog, lastOp, balanceCall, filterCall>>

\* The handlers a user sets off who clicks a pair, searches, and clicks a
\* pair again.
SwitchBackScript == <<"click", "click", "search", "click", "click">>

\* The next handler of the script is a click on a bar of the rank plot.
SwitchBackClick ==
    /\ handlerRuns < Len(SwitchBackScript)
    /\ SwitchBackScript[handlerRuns + 1] = "click"
    /\ rankPlotView # undefined
    /\ Len(clickLog) < MaxClicks
    /\ \E i \in ClickItems : \E o \in clickListener(This, i) :
        LET slot == IF onHigh THEN "numerator" ELSE "denominator"
        IN  /\ i.marktype = "rect"
            /\ Becomes(o.this)
            /\ clickLog' =
                 Append(clickLog,
                        [FeatureID |-> i.FeatureID, slot |-> slot,
                         triggered |-> o.triggered, throws |-> o.throws])
            /\ lastOp' = Ran("click", slot, TRUE, o)
    /\ handlerRuns' = handlerRuns + 1
    /\ UNCHANGED <<remaking, pass, other, multiFeatureButton, lastHandler, exportVars,
                   rankVars, balanceCall, filterCall>>

\* The next handler of the script is a press of the multi-feature button.
SwitchBackSearch ==
    /\ handlerRuns < Len(SwitchBackScript)
    /\ SwitchBackScript[handlerRuns + 1] = "search"
    /\ \E q \in Queries :
       \E o \in updateSamplePlotMulti(This, q.topType, q.botType,
                                      q.topText, q.botText) :
            /\ Becomes(o.this)
            /\ lastOp' = Ran("search", "none", WellFormed(q), o)
    /\ handlerRuns' = handlerRuns + 1
    /\ UNCHANGED <<remaking, pass, other, multiFeatureButton, lastHandler, exportVars,
                   rankVars, clickLog, balanceCall, filterCall>>

\* updateSamplePlotField / updateSamplePlotScale: the sample plot is
\* remade.  The old view stays in this.samplePlotView until vegaEmbed
\* resolves.
SamplePlotRemakeStarts ==
    /\ ~remaking
    /\ LET r == remakeSamplePlot(This)
       IN  /\ remaking' = r.embedding
           /\ lastOp' = Ran("remake", "none", TRUE,
                            Outcome(This, IF r.throws THEN Throw(r.error)
                                          ELSE Return(undefined),
                                    FALSE, "none"))
    /\ UNCHANGED <<displayVars, pass, pairVars, exportVars, rankVars,
                   clickLog, balanceCall, filterCall>>

\* vegaEmbed("#samplePlot") resolves for a remade sample plot: the
\* then-callback stores the new view.
SamplePlotRemade ==
    /\ remaking
    /\ \E rows \in RemadeRows(samplePlotView) :
         Becomes([This EXCEPT !.samplePlotView = View(rows)])
    /\ remaking' = FALSE
    /\ lastOp' = Ran("remade", "none", TRUE,
                     Outcome(This, Return(undefined), FALSE, "none"))
    /\ UNCHANGED <<pass, pairVars, exportVars, rankVars,
                   clickLog, balanceCall, filterCall>>

Next ==
    \/ RankPlotEmbedded
    \/ SamplePlotEmbedded
    \/ RankPlotClick
    \/ MultiFeatureButtonClick

Spec == Init /\ [][Next]_vars

\* computeBalance over its operands.
BalanceInit == InitDisplay(DenseCounts)
BalanceNext == CallComputeBalance
BalanceSpec == BalanceInit /\ [][BalanceNext]_vars

\* The rank plot re-sorted, over rank plot datasets and sort engines.
RankInit ==
    \E rankPlotJSON_ \in RankPlotJSONs, engine \in SortEngines :
        constructor(rankPlotJSON_, DenseCounts, engine) /\ OneDisplay
RankNext ==
    \/ RankPlotEmbedded
    \/ SamplePlotEmbedded
    \/ RankSignalChanged
    \/ SortFuncRuns
RankSpec == RankInit /\ [][RankNext]_vars
\* The promises of vegaEmbed resolve, and a view that has finished an
\* evaluation invokes the callbacks runAfter left in its queue.
RankFairSpec ==
    /\ RankSpec
    /\ WF_vars(RankPlotEmbedded)
    /\ WF_vars(SamplePlotEmbedded)
    /\ WF_vars(SortFuncRuns)

\* The export and the static helpers, over their arguments.
ExportInit == InitDisplay(DenseCounts)
ExportNext ==
    \/ ExportDataButtonClick
    \/ CallQuoteTSVFieldIfNeeded
    \/ CallIdentifyMetadataColumns
ExportSpec == ExportInit /\ [][ExportNext]_vars

\* A pass step by step, among the handlers that can be started.
PassInit == InitDisplay(DenseCounts)
PassNext ==
    \/ PassRankPlotEmbedded
    \/ PassSamplePlotEmbedded
    \/ PassRankPlotClick
    \/ PassMultiFeatureButtonClick
    \/ PassPatchesRankView
    \/ PassRankSignalChanged
    \/ PassSamplePlotRemade
PassSpec == PassInit /\ [][PassNext]_vars

\* Two displays constructed one after the other on the same page.
PairInit ==
    /\ constructor(RankPlotRows, DenseCounts, "stable")
    /\ other = NewDisplay(RankPlotRows, DenseCounts)
    /\ multiFeatureButton \in Instances
    /\ handlerRuns = 0
    /\ lastHandler = "none"
PairNext ==
    \/ PairPlotEmbedded
    \/ PairRankPlotClick
    \/ PairMultiFeatureButtonClick
PairSpec == PairInit /\ [][PairNext]_vars

\* The sample plot remade among clicks on the rank plot.
RemakeInit == InitDisplay(DenseCounts)
RemakeNext ==
    \/ RankPlotEmbedded
    \/ SamplePlotEmbedded
    \/ RankPlotClick
    \/ SamplePlotRemakeStarts
    \/ SamplePlotRemade
RemakeSpec == RemakeInit /\ [][RemakeNext]_vars

\* A pair clicked, a search, and a pair clicked again.
SwitchBackInit == Init
SwitchBackNext ==
    \/ RankPlotEmbedded
    \/ SamplePlotEmbedded
    \/ SwitchBackClick
    \/ SwitchBackSearch
SwitchBackSpec == SwitchBackInit /\ [][SwitchBackNext]_vars

\* filterFeatures over its arguments.
SearchInit == InitDisplay(DenseCounts)
SearchNext == CallFilterFeatures
SearchSpec == SearchInit /\ [][SearchNext]_vars

(***************************************************************************)
(* Properties.                                                             *)
(***************************************************************************)
Items(array) == {array.items[i] : i \in 1..Len(array.items)}

\* The handler that ran last called changeSamplePlot and it returned.
PassCompleted == lastOp.triggered /\ ~lastOp.throws
SinglePass == PassCompleted /\ lastOp.func = "updateBalanceSingle"
MultiPass == PassCompleted /\ lastOp.func = "updateBalanceMulti"

\* The selection a completed pass was made for: its mode, its numerator
\* features and its denominator features.
ActiveSelection ==
    IF lastOp.func = "updateBalanceSingle"
    THEN [mode |-> "single", num |-> {newFeatureHigh}, den |-> {newFeatureLow}]
    ELSE [mode |-> "multi", num |-> Items(topFeatures),
          den |-> Items(botFeatures)]

\* The sum of a sample's counts over a set of features.
RECURSIVE CountSum(_, _)
CountSum(features, sampleID) ==
    IF features = {}
    THEN Num(0)
    ELSE LET f == CHOOSE x \in features : TRUE
         IN  JsAdd(Get(feature_cts[f], sampleID),
                   CountSum(features \ {f}, sampleID))

ClassificationFor(sel, f) ==
    IF f \in sel.num /\ f \in sel.den THEN "Both"
    ELSE IF f \in sel.num THEN "Numerator"
    ELSE IF f \in sel.den THEN "Denominator"
    ELSE "None"

RankViewShows(sel) ==
    \A i \in 1..Len(rankPlotView.data) :
        rankPlotView.data[i].Classification =
            ClassificationFor(sel, rankPlotView.data[i].FeatureID)

SampleViewShows(sel) ==
    \A i \in 1..Len(samplePlotView.data) :
        LET row == samplePlotView.data[i]
        IN  row.rankratioviz_balance =
                computeBalance(CountSum(sel.num, row.SampleID),
                               CountSum(sel.den, row.SampleID)).value

IsNumber(v) == v.typeof = "number" /\ ~v.nan /\ v.str = <<>>

\* C1: when a synchronization pass has completed, the balances of the
\* sample view and the classifications of the rank view are both those of
\* one selection: the mode the pass ran in with that mode's current
\* numerator and denominator features.
C1_ViewsShowSameSelection ==
    PassCompleted =>
        RankViewShows(ActiveSelection) /\ SampleViewShows(ActiveSelection)

\* A search pass completed with a two-feature numerator and a defined
\* balance in the sample view.
C1_Witness ==
    /\ MultiPass
    /\ Cardinality(Items(topFeatures)) = 2
    /\ Items(botFeatures) # {}
    /\ \E i \in 1..Len(samplePlotView.data) :
          IsNumber(samplePlotView.data[i].rankratioviz_balance)

\* C2: on a fresh display the first two accepted clicks X, Y give
\* numerator X and denominator Y, and a third accepted click Z gives
\* numerator Z and leaves the denominator Y.
C2_ThreeClicksOnFreshDisplay ==
    /\ Len(clickLog) = 2 =>
          /\ newFeatureHigh = clickLog[1].FeatureID
          /\ newFeatureLow = clickLog[2].FeatureID
    /\ Len(clickLog) = 3 =>
          /\ newFeatureHigh = clickLog[3].FeatureID
          /\ newFeatureLow = clickLog[2].FeatureID

C4_ToggleAlternates == (~onHigh) <=> (Len(clickLog) % 2 = 1)

\* C5: a press of the multi-feature button with a well-formed query
\* always calls changeSamplePlot, also when it finds the features it found
\* before.
C5_SearchAlwaysTriggersPass ==
    (lastOp.op = "search" /\ lastOp.wellFormed) => lastOp.triggered

\* A well-formed search found what the selection already held, and the
\* pass ran to completion.
C5_Witness ==
    /\ lastOp.op = "search" /\ lastOp.wellFormed
    /\ lastOp.unchanged
    /\ Items(topFeatures) # {}
    /\ PassCompleted

\* C6: a press of the multi-feature button leaves onHigh and the four
\* single-pair fields as they were before it.
C6_SearchKeepsSinglePair ==
    lastOp.op = "search" => SinglePair(This) = lastOp.before

\* A search was made between a numerator click and the denominator click.
C6_Witness ==
    /\ lastOp.op = "search" /\ PassCompleted
    /\ ~onHigh
    /\ newFeatureHigh = F2
    /\ newFeatureLow = F1

\* C7: after a completed search pass a feature is classified Numerator or
\* Both iff the numerator query found it, Denominator or Both iff the
\* denominator query found it, and None otherwise.
C7_MultiClassificationIsMembership ==
    MultiPass =>
        \A i \in 1..Len(rankPlotView.data) :
            LET row == rankPlotView.data[i]
            IN  /\ row.Classification \in {"Numerator", "Both"}
                       <=> row.FeatureID \in Items(topFeatures)
                /\ row.Classification \in {"Denominator", "Both"}
                       <=> row.FeatureID \in Items(botFeatures)
                /\ row.Classification
                       \in {"Numerator", "Denominator", "Both", "None"}

\* A search whose numerator found F1 and F2 and whose denominator found F1.
C7_Witness ==
    /\ MultiPass
    /\ Items(topFeatures) = {F1, F2}
    /\ Items(botFeatures) = {F1}
    /\ rankPlotView.data[1].Classification = "Both"
    /\ rankPlotView.data[2].Classification = "Numerator"
    /\ rankPlotView.data[3].Classification = "None"

\* C8: after a completed pass in either mode, a feature that is both a
\* numerator and a denominator feature is classified Both.
C8_BothTakesPrecedence ==
    PassCompleted =>
        \A i \in 1..Len(rankPlotView.data) :
            LET row == rankPlotView.data[i]
            IN  (row.FeatureID \in ActiveSelection.num
                 /\ row.FeatureID \in ActiveSelection.den)
                => row.Classification = "Both"

\* The same feature was clicked as numerator and as denominator.
C8_Witness ==
    /\ SinglePass
    /\ newFeatureHigh = F1 /\ newFeatureLow = F1
    /\ rankPlotView.data[1].Classification = "Both"

\* C9: after a completed pass each sample's balance is computeBalance of
\* its two operands: in single-pair mode the sample's counts of the
\* numerator feature and of the denominator feature, in multi-set mode the
\* sums of its counts over the numerator and over the denominator features.
C9_BalanceOfCountsOrSums ==
    /\ SinglePass =>
          \A i \in 1..Len(samplePlotView.data) :
              LET row == samplePlotView.data[i]
              IN  row.rankratioviz_balance =
                      computeBalance(
                          Get(feature_cts[newFeatureHigh], row.SampleID),
                          Get(feature_cts[newFeatureLow], row.SampleID)).value
    /\ MultiPass =>
          \A i \in 1..Len(samplePlotView.data) :
              LET row == samplePlotView.data[i]
              IN  row.rankratioviz_balance =
                      computeBalance(
                          CountSum(Items(topFeatures), row.SampleID),
                          CountSum(Items(botFeatures), row.SampleID)).value

\* Numerator {F1, F2} (counts 2 + 4 for S1) over denominator {F1} (count 2):
\* the balance of S1 is ln 6 - ln 2.
C9_Witness ==
    /\ MultiPass
    /\ Items(topFeatures) = {F1, F2}
    /\ Items(botFeatures) = {F1}
    /\ samplePlotView.data[1].rankratioviz_balance
           = Num(MathLogTable[6] - MathLogTable[2])

\* C10: for numeric operands of which one is <= 0, computeBalance returns
\* NaN: it does not throw and returns no other number.
C10_NonPositiveGivesNaN ==
    ( /\ balanceCall # NoCall
      /\ balanceCall.top.typeof = "number"
      /\ balanceCall.bot.typeof = "number"
      /\ \/ (~balanceCall.top.nan /\ balanceCall.top.num <= 0)
         \/ (~balanceCall.bot.nan /\ balanceCall.bot.num <= 0) )
    => balanceCall.out = Return(NaN)

\* computeBalance(0, 2) returned NaN.
C10_Witness ==
    /\ balanceCall.top = Num(0)
    /\ balanceCall.bot = Num(2)
    /\ balanceCall.out = Return(NaN)

\* C11: a call of computeBalance with an operand that is not a number
\* throws InvalidInput, whatever the other operand is, a number <= 0
\* included.
C11_NonNumericThrowsInvalidInput ==
    ( /\ balanceCall # NoCall
      /\ \/ balanceCall.top.typeof # "number"
         \/ balanceCall.bot.typeof # "number" )
    => balanceCall.out = Throw("InvalidInput")

\* computeBalance(null, 0) threw InvalidInput.
C11_Witness ==
    /\ balanceCall.top = null
    /\ balanceCall.bot = Num(0)
    /\ balanceCall.out = Throw("InvalidInput")

\* C12: for numbers a > 0 and b > 0, computeBalance(a, b) returns
\* ln(a) - ln(b).
C12_PositiveGivesLogDifference ==
    ( /\ balanceCall # NoCall
      /\ IsNumber(balanceCall.top) /\ balanceCall.top.num > 0
      /\ IsNumber(balanceCall.bot) /\ balanceCall.bot.num > 0 )
    => balanceCall.out =
           Return(Num(MathLogTable[balanceCall.top.num]
                      - MathLogTable[balanceCall.bot.num]))

\* computeBalance(4, 2) returned ln 4 - ln 2 = ln 2.
C12_Witness ==
    /\ balanceCall.top = Num(4)
    /\ balanceCall.bot = Num(2)
    /\ balanceCall.out = Return(Num(693))

\* C13: for numbers a and b, computeBalance(a, b) is a number other than
\* NaN iff computeBalance(b, a) is, and then the one is the negation of
\* the other.
C13_SwapNegatesBalance ==
    ( /\ balanceCall # NoCall
      /\ balanceCall.top.typeof = "number"
      /\ balanceCall.bot.typeof = "number" )
    => LET forward == balanceCall.out
           backward == computeBalance(balanceCall.bot, balanceCall.top)
       IN  /\ ~forward.throws /\ ~backward.throws
           /\ forward.value.nan <=> backward.value.nan
           /\ ~forward.value.nan =>
                  /\ forward.value.str = <<>> /\ backward.value.str = <<>>
                  /\ forward.value.num = 0 - backward.value.num

\* computeBalance(2, 3) returned ln 2 - ln 3, a negative number.
C13_Witness ==
    /\ balanceCall.top = Num(2)
    /\ balanceCall.bot = Num(3)
    /\ balanceCall.out = Return(Num(0 - 406))

\* The characters a token search splits on.
Separators == Whitespace \cup {",", ";"}

\* The tokens of the string s: its maximal runs of non-separators.
Tokens(s) ==
    {SubSeq(s, i, j) : <<i, j>> \in
        {p \in (1..Len(s)) \X (1..Len(s)) :
            /\ p[1] <= p[2]
            /\ \A k \in p[1]..p[2] : s[k] \notin Separators
            /\ (p[1] = 1 \/ s[p[1] - 1] \in Separators)
            /\ (p[2] = Len(s) \/ s[p[2] + 1] \in Separators)}}

\* t occurs in s as a run of consecutive characters.
Contains(s, t) ==
    \/ t = <<>>
    \/ \E i \in 1..Len(s) : \E j \in i..Len(s) : SubSeq(s, i, j) = t

\* The string a metadata value is searched as: a string itself, a number
\* as its decimal form; no other value is searched.
IsSearchable(v) == v.typeof \in {"string", "number"}
SearchedAs(v) == IF v.typeof = "string" THEN v.str ELSE NumberToString(v)

\* filterFeatures was called with this searchType and returned.
Searched(searchType) ==
    /\ filterCall # NoSearch
    /\ filterCall.searchType = searchType
    /\ ~filterCall.out.throws

\* The field of the call is "Feature ID" or one of the ordering.
ValidField ==
    \/ filterCall.featureMetadataField = "Feature ID"
    \/ \E i \in 1..Len(filterCall.rankPlotJSON.ordering) :
          filterCall.rankPlotJSON.ordering[i] = filterCall.featureMetadataField

\* C14: a token search returns exactly the features whose field value is
\* a string or a number and has, split on commas, semicolons and
\* whitespace with empty tokens dropped, a token equal to a token of the
\* query split the same way.
C14_TokenSearchMatchesExactTokens ==
    Searched(RankSearch) =>
        LET Matches(row) ==
                LET v == Get(row, filterCall.featureMetadataField)
                IN  /\ IsSearchable(v)
                    /\ Tokens(SearchedAs(v))
                          \cap Tokens(filterCall.inputText.str) # {}
        IN  filterCall.out.value.items
                = SelectSeq(filterCall.rankPlotJSON.rows, Matches)

\* Query "A B" on the feature IDs: "A;C" and "B" are found, "AB;C" is not.
C14_Witness ==
    /\ Searched(RankSearch)
    /\ filterCall.inputText = Str(<<"A", " ", "B">>)
    /\ filterCall.featureMetadataField = "Feature ID"
    /\ filterCall.out.value.items = <<SearchRows[1], SearchRows[3]>>

\* C15 as stated: a text search with a query of at least one character
\* returns exactly the features whose field value is a string containing
\* the query or a number whose decimal form contains it.
C15_TextSearchMatchesSubstring ==
    (Searched(TextSearch) /\ filterCall.inputText.str # <<>>) =>
        LET Matches(row) ==
                LET v == Get(row, filterCall.featureMetadataField)
                IN  /\ IsSearchable(v)
                    /\ Contains(SearchedAs(v), filterCall.inputText.str)
        IN  filterCall.out.value.items
                = SelectSeq(filterCall.rankPlotJSON.rows, Matches)

\* C15 amended: the same for a query that has a character other than
\* whitespace.
C15_TextSearchMatchesSubstringUnlessBlank ==
    ( /\ Searched(TextSearch)
      /\ \E k \in 1..Len(filterCall.inputText.str) :
            filterCall.inputText.str[k] \notin Whitespace ) =>
        LET Matches(row) ==
                LET v == Get(row, filterCall.featureMetadataField)
                IN  /\ IsSearchable(v)
                    /\ Contains(SearchedAs(v), filterCall.inputText.str)
        IN  filterCall.out.value.items
                = SelectSeq(filterCall.rankPlotJSON.rows, Matches)

\* Query "2" on Confidence: the numbers 12 and 2 are found, the missing
\* value and NaN are not.
C15_Witness ==
    /\ Searched(TextSearch)
    /\ filterCall.inputText = Str(<<"2">>)
    /\ filterCall.featureMetadataField = "Confidence"
    /\ filterCall.out.value.items = <<SearchRows[1], SearchRows[2]>>

\* C16: with a valid field and searchType text or rank, a query that is
\* empty or all whitespace returns the empty array.
C16_BlankQueryFindsNothing ==
    ( /\ filterCall # NoSearch
      /\ ValidField
      /\ filterCall.searchType \in {TextSearch, RankSearch}
      /\ filterCall.inputText.typeof = "string"
      /\ \A k \in 1..Len(filterCall.inputText.str) :
            filterCall.inputText.str[k] \in Whitespace )
    => filterCall.out = Return(Arr(<<>>))

\* A text search for " " on feature IDs of which one contains a space
\* returned the empty array.
C16_Witness ==
    /\ Searched(TextSearch)
    /\ filterCall.inputText = Str(<<" ">>)
    /\ filterCall.featureMetadataField = "Feature ID"
    /\ filterCall.rankPlotJSON.rows = SearchRows
    /\ filterCall.out = Return(Arr(<<>>))

\* C17: filterFeatures throws FieldNotFound exactly when the field is
\* neither "Feature ID" nor in the feature metadata ordering.
C17_FieldNotFoundIffUnknownField ==
    filterCall # NoSearch =>
        (filterCall.out = Throw("FieldNotFound") <=> ~ValidField)

\* "Taxonomy" was asked for in a dataset whose ordering lacks it, and
\* "Feature ID" was searched in such a dataset.
C17_Witness ==
    /\ filterCall.rankPlotJSON.ordering = <<>>
    /\ \/ /\ filterCall.featureMetadataField = "Taxonomy"
          /\ filterCall.out = Throw("FieldNotFound")
       \/ /\ filterCall.featureMetadataField = "Feature ID"
          /\ filterCall.inputText = Str(<<"A">>)
          /\ Searched(TextSearch)

\* C18: with a valid field, a searchType other than "text" and "rank",
\* a missing one included, makes filterFeatures throw InvalidSearchKind.
C18_UnknownKindThrows ==
    ( /\ filterCall # NoSearch
      /\ ValidField
      /\ filterCall.searchType \notin {TextSearch, RankSearch} )
    => filterCall.out = Throw("InvalidSearchKind")

\* filterFeatures was called without a searchType.
C18_Witness ==
    /\ filterCall # NoSearch
    /\ ValidField
    /\ filterCall.searchType = undefined
    /\ filterCall.inputText = Str(<<"A">>)
    /\ filterCall.out = Throw("InvalidSearchKind")

\* C19: once a sortFunc has run for rank R, the positions of the N
\* features of the rank plot view are the numbers 0..N-1, each once, and
\* a feature whose R is smaller than another's has the smaller position.
C19_PositionsArePermutationInRankOrder ==
    sortLog.newRank # "none" =>
        LET data == rankPlotView.data
            R == sortLog.newRank
        IN  /\ {data[i].rankratioviz_x : i \in 1..Len(data)}
                   = 0..(Len(data) - 1)
            /\ \A i \in 1..Len(data) : \A j \in 1..Len(data) :
                  data[i][R].num < data[j][R].num
                      => data[i].rankratioviz_x < data[j].rankratioviz_x

\* Sorted by Rank1, F2 (rank -3) moved from position 1 to position 0.
C19_Witness ==
    /\ sortLog.newRank = "Rank1"
    /\ rankPlotJSON = RankPlotRows
    /\ rankPlotView.data[2].FeatureID = F2
    /\ rankPlotView.data[2].rankratioviz_x = 0

\* C20: a sortFunc that runs for a rank a sortFunc has run for before
\* gives every feature the position the earlier run gave it, tied
\* features included.
C20_ReRankIsIdempotent ==
    (sortLog.newRank # "none" /\ sortLog.earlier[sortLog.newRank] # <<>>)
        => Positions(rankPlotView) = sortLog.earlier[sortLog.newRank]

\* In an engine whose sort is not stable the view was sorted by Rank1
\* (F1 and F3 tie), then by Rank0, then by Rank1 again.
C20_Witness ==
    /\ sortLog.newRank = "Rank1"
    /\ sortLog.earlier["Rank1"] # <<>>
    /\ sortLog.earlier["Rank0"] # <<>>
    /\ sortLog.earlier["Rank0"] # Positions(rankPlotView)
    /\ sortEngine = "reversed"
    /\ rankPlotJSON = RankPlotRows

\* The positions of the rows follow the order of their values of rank R.
InRankOrder(view, R) ==
    /\ {view.data[i].rankratioviz_x : i \in 1..Len(view.data)}
           = 0..(Len(view.data) - 1)
    /\ \A i \in 1..Len(view.data) : \A j \in 1..Len(view.data) :
          view.data[i][R].num < view.data[j][R].num
              => view.data[i].rankratioviz_x < view.data[j].rankratioviz_x

C22_SortFuncRunsAfterCycle ==
    sortLog.newRank # "none" => ~sortLog.inListener

\* The last handler ran a pass over the rows of an embedded sample view.
PassOverRows ==
    /\ lastOp.op \in {"click", "search"}
    /\ lastOp.triggered
    /\ samplePlotView # undefined

\* C24: a pass over a sample row whose sample ID no feature has a count
\* for throws UnknownSampleID, in single-pair and in multi-set mode.
C24_AbsentSampleThrowsUnknownSampleID ==
    ( /\ PassOverRows
      /\ \E i \in 1..Len(samplePlotView.data) :
            \A f \in DOMAIN feature_cts :
                samplePlotView.data[i].SampleID \notin DOMAIN feature_cts[f] )
    => (lastOp.throws /\ lastOp.error = "UnknownSampleID")

\* A click pass and a search pass over the table without S2 threw
\* UnknownSampleID.
C24_Witness ==
    /\ PassOverRows
    /\ S2 \notin DOMAIN feature_cts[F1]
    /\ lastOp.error = "UnknownSampleID"
    /\ lastOp.func = "updateBalanceMulti"
    /\ \E k \in 1..Len(clickLog) : clickLog[k].triggered /\ clickLog[k].throws

\* C25: a pass over a sample row for which a feature of the active
\* selection has no count throws, whatever counts the other features have
\* for that sample.
C25_MissingCountThrows ==
    ( /\ PassOverRows
      /\ \E i \in 1..Len(samplePlotView.data) :
            \E f \in ActiveSelection.num \cup ActiveSelection.den :
                samplePlotView.data[i].SampleID \notin DOMAIN feature_cts[f] )
    => lastOp.throws

\* The sample has a balance that is a number other than NaN.
HasBalance(row) ==
    /\ row.rankratioviz_balance.typeof = "number"
    /\ ~row.rankratioviz_balance.nan

\* C26: the export has, after its header line, one line for each sample
\* whose balance is not NaN, null or undefined, in the order of the rows of
\* the view, and no line for another sample; when no sample has such a
\* balance the export is the empty string and nothing is downloaded.
C26_ExportHasOneRowPerDrawnSample ==
    exportCall # NoExport =>
        LET drawn == SelectSeq(exportCall.data, HasBalance)
            lines == exportCall.out.value
        IN  /\ ~exportCall.out.throws
            /\ drawn = <<>> => (lines = <<>> /\ ~exportCall.downloaded)
            /\ drawn # <<>> =>
                  /\ exportCall.downloaded
                  /\ Len(lines) = 1 + Len(drawn)
                  /\ lines[1][1] = <<"S", "a", "m", "p", "l", "e", "_", "I", "D">>
                  /\ lines[1][2] = <<"L", "o", "g", "_", "R", "a", "t", "i", "o">>
                  /\ \A k \in 1..Len(drawn) :
                        /\ lines[k + 1][1]
                             = quoteTSVFieldIfNeeded(drawn[k].SampleID).str
                        /\ lines[k + 1][2]
                             = NumberToString(drawn[k].rankratioviz_balance)

\* Balances 1200, NaN, -500: a header and the lines of the first and the
\* third sample.
C26_Witness ==
    /\ exportCall # NoExport
    /\ exportCall.data[1].rankratioviz_balance = Num(1200)
    /\ exportCall.data[2].rankratioviz_balance = NaN
    /\ exportCall.data[3].rankratioviz_balance = Num(0 - 500)
    /\ Len(exportCall.out.value) = 3
    /\ exportCall.out.value[2][1] = <<"S", "1">>
    /\ exportCall.out.value[3][1] = <<"\"", "S", "\"", "\"", "3", "\"">>
    /\ exportCall.out.value[3][2] = <<"-", "5", "0", "0">>

\* C27: every line of a non-empty export has three fields when the
\* metadata field is neither "Sample ID" nor "rankratioviz_balance", and
\* two fields when it is one of them.
C27_ThirdColumnIffOtherField ==
    (exportCall # NoExport /\ exportCall.out.value # <<>>) =>
        LET third ==
                exportCall.currMetadataField \notin
                    {Str(<<"S", "a", "m", "p", "l", "e", " ", "I", "D">>),
                     Str(<<"r", "a", "n", "k", "r", "a", "t", "i", "o", "v",
                           "i", "z", "_", "b", "a", "l", "a", "n", "c", "e">>)}
        IN  \A k \in 1..Len(exportCall.out.value) :
                Len(exportCall.out.value[k]) = IF third THEN 3 ELSE 2

\* An export with the field Depth: the header names it and the line of S1
\* holds its depth.
C27_Witness ==
    /\ exportCall # NoExport
    /\ exportCall.currMetadataField = Str(<<"D", "e", "p", "t", "h">>)
    /\ Len(exportCall.out.value) >= 2
    /\ exportCall.out.value[1][3] = <<"D", "e", "p", "t", "h">>
    /\ exportCall.out.value[2] = << <<"S", "1">>, <<"1", "2", "0", "0">>, <<"7">> >>

\* C28: quoteTSVFieldIfNeeded returns a string that has a whitespace
\* character or a double quote wrapped in double quotes with each of its
\* double quotes doubled, and returns any other value as it is.
C28_QuotedIffWhitespaceOrQuote ==
    quoteCall # NoQuote =>
        LET t == quoteCall.t
            needed == /\ t.typeof = "string"
                      /\ \E i \in 1..Len(t.str) :
                            t.str[i] \in {" ", "\t", "\n", "\""}
        IN  /\ needed =>
                 /\ quoteCall.out =
                        Str(<<"\"">> \o DoubleQuotes(t.str) \o <<"\"">>)
                 /\ Len(quoteCall.out.str) =
                        Len(t.str) + 2
                        + Cardinality({i \in 1..Len(t.str) : t.str[i] = "\""})
            /\ ~needed => quoteCall.out = t

\* He said "hi" became "He said ""hi""".
C28_Witness ==
    /\ quoteCall.t =
         Str(<<"H", "e", " ", "s", "a", "i", "d", " ", "\"", "h", "i", "\"">>)
    /\ quoteCall.out =
         Str(<<"\"", "H", "e", " ", "s", "a", "i", "d", " ",
               "\"", "\"", "h", "i", "\"", "\"", "\"">>)

\* C29: identifyMetadataColumns throws NoMetadataColumns for a sample
\* dataset without records, and for one with records returns the field
\* names of the first.
C29_NoRecordsThrowsNoMetadataColumns ==
    metadataCall # NoMetadata =>
        /\ Len(metadataCall.samplePlotSpec) = 0 =>
              (metadataCall.out.throws
               /\ metadataCall.out.error = "NoMetadataColumns")
        /\ Len(metadataCall.samplePlotSpec) >= 1 =>
              (~metadataCall.out.throws
               /\ metadataCall.out.value = DOMAIN metadataCall.samplePlotSpec[1])

\* The selection without the toggle, which the click listener flips after
\* changeSamplePlot has returned.
PairAndSets(sel) ==
    [sel EXCEPT !.pair = [sel.pair EXCEPT !.onHigh = TRUE]]

\* C23: between the start of a pass and the patch of the rank view no
\* handler runs.  While the sample view is patched and the rank view is
\* not, the selection is the one the pass started with, and the only step
\* taken from there is the patch of the rank view by the same pass, which
\* leaves the sample view, the pair and the sets as they are.
C23_PassRunsToCompletion ==
    [][/\ pass'.pc = "samplePatched" =>
            /\ pass.pc = "idle"
            /\ Selection(This)' = pass'.start
       /\ pass.pc = "samplePatched" =>
            /\ pass'.pc = "idle"
            /\ Selection(This) = pass.start
            /\ PairAndSets(Selection(This)') = PairAndSets(pass.start)
            /\ samplePlotView' = samplePlotView
            /\ rankPlotView' = pass.final.rankPlotView]_vars

\* The pass of the click that chose F2 as denominator of F1 has written
\* the balances of the samples and has not coloured the rank plot yet.
C23_Witness ==
    /\ pass.pc = "samplePatched"
    /\ newFeatureHigh = F1
    /\ newFeatureLow = F2
    /\ ~onHigh
    /\ samplePlotView.data[1].rankratioviz_balance =
           computeBalance(Num(2), Num(4)).value
    /\ \A i \in 1..Len(rankPlotView.data) :
          rankPlotView.data[i].Classification = "None"
    /\ pass.final.rankPlotView.data[1].Classification = "Numerator"

\* C30: a handler bound for one of two displays leaves the toggle, the
\* pair and the sets of the other display as they are.
C30_HandlersActOnTheirOwnDisplay ==
    [][/\ lastHandler' = "first" => Selection(other)' = Selection(other)
       /\ lastHandler' = "second" => Selection(This)' = Selection(This)]_vars

\* The second display holds the features a search found, the first the
\* pair two clicks on its rank plot chose and the balances of that pair.
C30_Witness ==
    /\ lastHandler = "first"
    /\ newFeatureHigh = F1
    /\ newFeatureLow = F2
    /\ topFeatures = undefined
    /\ samplePlotView # undefined
    /\ samplePlotView.data[1].rankratioviz_balance =
           computeBalance(Num(2), Num(4)).value
    /\ other.newFeatureHigh = undefined
    /\ other.onHigh
    /\ other.topFeatures = Arr(<<F1, F2>>)

\* C31: a click on the rank plot that is on no item, or on an item whose
\* mark is not a rect, leaves the toggle, the pair with its previous
\* values and the two sets as they were, and triggers no pass.
C31_UnacceptedClickChangesNothing ==
    (lastOp.op = "click" /\ lastOp.slot = "none") =>
        /\ SinglePair(This) = lastOp.before
        /\ lastOp.unchanged
        /\ ~lastOp.triggered
        /\ ~lastOp.throws

\* A click beside the bars while the display waits for a denominator.
C31_Witness ==
    /\ lastOp.op = "click"
    /\ lastOp.slot = "none"
    /\ ~onHigh
    /\ newFeatureHigh = F1
    /\ topFeatures # undefined

\* C32: a step in which the "rank" signal changes gives every row of the
\* rank plot view the position of its feature in the order of a rank and
\* changes nothing else: every row keeps its other fields, its
\* classification among them, and the selection and the samples' balances
\* are the same after the step as before it.
C32_ReRankChangesPositionsOnly ==
    [][PassRankSignalChanged =>
          /\ Len(rankPlotView'.data) = Len(rankPlotView.data)
          /\ \A i \in 1..Len(rankPlotView.data) :
                /\ rankPlotView'.data[i] =
                     [rankPlotView.data[i] EXCEPT !.rankratioviz_x =
                          rankPlotView'.data[i].rankratioviz_x]
                /\ rankPlotView'.data[i].Classification =
                     rankPlotView.data[i].Classification
          /\ \E R \in {"Rank0", "Rank1"} : InRankOrder(rankPlotView', R)
          /\ Selection(This)' = Selection(This)
          /\ samplePlotView' = samplePlotView]_vars

\* The rank plot is in the order of Rank1 and shows the pair F1 / F2 that
\* the samples' balances were computed for.
C32_Witness ==
    /\ rankPlotView # undefined
    /\ samplePlotView # undefined
    /\ pass.pc = "idle"
    /\ rankPlotView.data[2].rankratioviz_x = 0
    /\ rankPlotView.data[1].Classification = "Numerator"
    /\ rankPlotView.data[2].Classification = "Denominator"
    /\ samplePlotView.data[1].rankratioviz_balance =
           computeBalance(Num(2), Num(4)).value

\* C33: after the clicks X, Y, a search whose pass completed, and the
\* clicks X, Y again, both views show the pair: the rank plot X as
\* Numerator and Y as Denominator, the sample plot the balances of X
\* and Y.
C33_SamePairReclickedShowsPair ==
    ( /\ handlerRuns = Len(SwitchBackScript)
      /\ Len(clickLog) = 4
      /\ clickLog[1].FeatureID = clickLog[3].FeatureID
      /\ clickLog[2].FeatureID = clickLog[4].FeatureID
      /\ clickLog[1].FeatureID # clickLog[2].FeatureID
      /\ clickLog[2].triggered
      /\ \A k \in 1..4 : ~clickLog[k].throws
      /\ Items(topFeatures) # {}
      /\ Items(botFeatures) # {} )
    => LET pair == [mode |-> "single", num |-> {clickLog[1].FeatureID},
                    den |-> {clickLog[2].FeatureID}]
       IN  RankViewShows(pair) /\ SampleViewShows(pair)

\* The selections the display holds: the pair, when both its features
\* are chosen, and the two sets, when a search has stored them.
HeldSelections ==
    (IF newFeatureHigh \in FeatureIDs /\ newFeatureLow \in FeatureIDs
     THEN {[mode |-> "single", num |-> {newFeatureHigh},
            den |-> {newFeatureLow}]}
     ELSE {})
    \cup
    (IF topFeatures # undefined /\ botFeatures # undefined
     THEN {[mode |-> "multi", num |-> Items(topFeatures),
            den |-> Items(botFeatures)]}
     ELSE {})

\* C34: remaking the sample plot keeps the selection; when the remade
\* view is in place the samples' balances are those of the selection the
\* rank plot shows; and no pass is applied to the view that was discarded
\* while the remade one is pending.
C34_RemakeKeepsSelectionShown ==
    /\ lastOp.op \in {"remake", "remade"} =>
          (SinglePair(This) = lastOp.before /\ lastOp.unchanged)
    /\ (lastOp.op = "remade" /\ rankPlotView # undefined) =>
          \A sel \in HeldSelections :
              RankViewShows(sel) => SampleViewShows(sel)
    /\ (lastOp.op \in {"click", "search"} /\ PassCompleted) => ~remaking

\* C35: after every accepted click that set the denominator the display
\* waits for a numerator again, whether or not the pass of the click
\* threw.
C35_DenominatorClickRestoresToggle ==
    (lastOp.op = "click" /\ lastOp.slot = "denominator") => onHigh

\* The query of the call is the empty string or whitespace only.
BlankQuery ==
    /\ filterCall.inputText.typeof = "string"
    /\ \A k \in 1..Len(filterCall.inputText.str) :
          filterCall.inputText.str[k] \in Whitespace

\* The searchType of the call is "text" or "rank".
KnownKind == filterCall.searchType \in {TextSearch, RankSearch}

\* C36: filterFeatures looks at the field first, then at the searchType,
\* then at the query: the error of a call is FieldNotFound when the field
\* is unknown, whatever the searchType and the query are, and
\* InvalidSearchKind when the field is known and the searchType is not,
\* whatever the query is; a blank query returns the empty array only
\* when both are known.
C36_ValidationOrder ==
    filterCall # NoSearch =>
        /\ ~ValidField => filterCall.out = Throw("FieldNotFound")
        /\ (ValidField /\ ~KnownKind) =>
               filterCall.out = Throw("InvalidSearchKind")
        /\ (BlankQuery /\ ~filterCall.out.throws) =>
               (ValidField /\ KnownKind /\ filterCall.out = Return(Arr(<<>>)))

\* A call with an unknown field, an unknown searchType and an empty query
\* threw FieldNotFound.
C36_Witness ==
    /\ filterCall # NoSearch
    /\ ~ValidField
    /\ ~KnownKind
    /\ filterCall.inputText = Str(<<>>)
    /\ filterCall.out = Throw("FieldNotFound")

\* C37: a search in which the numerator query or the denominator query
\* threw leaves the two sets as they were and triggers no pass.
C37_FailedSearchChangesNothing ==
    (lastOp.op = "search" /\ lastOp.throws /\ ~lastOp.wellFormed) =>
        (lastOp.unchanged /\ ~lastOp.triggered)

\* C38: after a completed pass for a selection whose numerator and
\* denominator features are the same, the balance of a sample is 0 when
\* its sum of counts over them is positive and NaN when it is not, and
\* every selected feature is classified Both.
C38_IdenticalSelectionGivesZeroOrNaN ==
    (PassCompleted /\ ActiveSelection.num = ActiveSelection.den) =>
        /\ \A i \in 1..Len(samplePlotView.data) :
              LET row == samplePlotView.data[i]
                  sum == CountSum(ActiveSelection.num, row.SampleID)
              IN  row.rankratioviz_balance =
                      IF sum.typeof = "number" /\ ~sum.nan /\ sum.num > 0
                      THEN Num(0)
                      ELSE NaN
        /\ \A i \in 1..Len(rankPlotView.data) :
              rankPlotView.data[i].FeatureID \in ActiveSelection.num
                  => rankPlotView.data[i].Classification = "Both"

\* F1 was clicked as numerator and as denominator: S1, with count 2, has
\* balance 0 and S2, with count 0, has NaN.
C38_Witness ==
    /\ SinglePass
    /\ newFeatureHigh = F1
    /\ newFeatureLow = F1
    /\ feature_cts = DenseCounts.cts
    /\ samplePlotView.data[1].rankratioviz_balance = Num(0)
    /\ samplePlotView.data[2].rankratioviz_balance = NaN
    /\ rankPlotView.data[1].Classification = "Both"

\* The search just run started a pass with an empty numerator set or an
\* empty denominator set.
EmptySetPass ==
    /\ lastOp.op = "search"
    /\ lastOp.triggered
    /\ (Items(topFeatures) = {} \/ Items(botFeatures) = {})

\* The pass ran without error, every balance is NaN and getSamplePlotData
\* returns the empty string whatever the x-axis field is.
NothingToExport ==
    /\ ~lastOp.throws
    /\ \A i \in 1..Len(samplePlotView.data) :
          samplePlotView.data[i].rankratioviz_balance = NaN
    /\ \A f \in ExportFields :
          LET tsv == getSamplePlotData(This, f)
          IN  ~tsv.throws /\ tsv.value = <<>>

\* Both views are shown and the first feature has a count for every
\* sample of the sample view.
SamplesKnown ==
    /\ rankPlotView # undefined
    /\ samplePlotView # undefined
    /\ \A i \in 1..Len(samplePlotView.data) :
          Get(feature_cts[feature_ids[1]],
              samplePlotView.data[i].SampleID) # undefined

ComputedPositions(R) ==
    LET newX == featureIDToNewX(ArraySort(featureDataCopy(This), R,
                                          sortEngine))
    IN  [i \in 1..Len(rankPlotView.data) |->
            newX[rankPlotView.data[i].FeatureID]]

\* C40: whenever the rank signal has changed and no sortFunc is waiting,
\* the positions of the features are those computed for the rank the
\* signal changed to last; and the sortFunc of every change of the rank
\* signal eventually runs.
C40_LatestRankIsShown ==
    /\ [](( /\ sortLog.requested # "none"
            /\ postrun = <<>> )
          => Positions(rankPlotView) = ComputedPositions(sortLog.requested))
    /\ \A R \in {rankOrdering[i] : i \in 1..Len(rankOrdering)} :
          (sortLog.requested = R) ~> (sortLog.newRank = R)

====
